---- MODULE Spec2Model ----
(***************************************************************************)
(* A model of the Elgin compiler core: the AST nodes produced by the       *)
(* parser (astgen.rs), the AST-to-stack-IR lowering of the IR builder      *)
(* (ir.rs) and the constraint generation and solving of the type           *)
(* inferencer (analysis.rs), with the process-wide error log (errors.rs).  *)
(***************************************************************************)
EXTENDS Integers, Sequences, FiniteSets, TLC

VARIABLES
    ast,                 \* IRBuilder.ast: the top-level nodes handed to IRBuilder::new
    available_type_var,  \* IRBuilder.available_type_var
    available_label_id,  \* IRBuilder.available_label_id
    scopes,              \* IRBuilder.scopes
    procs,               \* IRBuilder.procs
    consts,              \* IRBuilder.consts
    errors,              \* the ERRORS log of errors.rs
    pc,                  \* "new" | "built" | "analyzed" | "aborted" and the other phases
    go_result,           \* what IRBuilder::go returned ("Some" | "None"), "-" before
    analyze_result,      \* what IRBuilder::analyze returned, "-" before
    tokens,              \* Parser.tokens: the token list handed to the parser
    parser_index,        \* Parser.index: the number of tokens consumed
    expr_result,         \* what Parser::expr returned, NotParsed before
    statement_result,    \* what Parser::statement returned, NotParsed before
    constraint_list,     \* the Constraints list a walk of gen_constraints is filling
    generator,           \* the Generator: ok, stack, lookup, labels, llvm_procs, built
    gen_at               \* Generator::go's place: the procedure and the instruction

vars == <<ast, available_type_var, available_label_id, scopes, procs, consts,
          errors, pc, go_result, analyze_result, tokens, parser_index, expr_result,
          statement_result, constraint_list, generator, gen_at>>

(***************************************************************************)
(* Bounds of the model.                                                    *)
(***************************************************************************)
\* nesting depth of if/while statements in the generated procedure bodies
MaxDepth == 2
\* operands of the operator chains `a op b op c` the expression parser is run on
MaxOperands == 3
\* operators of the nested expressions `a + (a + (a + ...))`
MaxNesting == 4
\* pairs a Constraints list is filled with when add_constraint is run on its own
MaxConstraints == 2
\* type variable ids handed out when add_constraint is run on its own
MaxTypeVar == 5
\* nested constant inlinings after which the native stack is taken to be exhausted
MaxInline == 3

(***************************************************************************)
(* types.rs: Type.  Every type is a record of the same shape; the payload  *)
(* of Variable is its id, Ptr(I8) is the one compound type in use.         *)
(***************************************************************************)
Ty(tag) == [tag |-> tag, id |-> 0]
TVar(n) == [tag |-> "Variable", id |-> n]
IntLiteral == Ty("IntLiteral")
FloatLiteral == Ty("FloatLiteral")
StrLiteral == Ty("StrLiteral")
I32 == Ty("I32")
I64 == Ty("I64")
F64 == Ty("F64")
Bool == Ty("Bool")
Unknown == Ty("Unknown")
Undefined == Ty("Undefined")
NoReturn == Ty("NoReturn")
PtrI8 == Ty("Ptr(I8)")
IsVariable(t) == t.tag = "Variable"

(***************************************************************************)
(* errors.rs: Span<T> carries (pos, len); here the pair is one field.      *)
(* ir.rs: Instruction {ins, typ} with InstructionType flattened into       *)
(* ins (the variant), s (its String or CompareType), wrap, l1, l2.         *)
(***************************************************************************)
Instruction(ins, s, wrap, l1, l2, typ, span) ==
    [ins |-> ins, s |-> s, wrap |-> wrap, l1 |-> l1, l2 |-> l2, typ |-> typ, span |-> span]
Push(value, typ, span) == Instruction("Push", value, FALSE, 0, 0, typ, span)
Load(name, typ, span) == Instruction("Load", name, FALSE, 0, 0, typ, span)
Store(name, typ, span) == Instruction("Store", name, FALSE, 0, 0, typ, span)
Allocate(name, typ, span) == Instruction("Allocate", name, FALSE, 0, 0, typ, span)
Branch(l1, l2, span) == Instruction("Branch", "", FALSE, l1, l2, NoReturn, span)
Jump(l, span) == Instruction("Jump", "", FALSE, l, 0, Undefined, span)
Label(l, span) == Instruction("Label", "", FALSE, l, 0, Undefined, span)
Call(name, typ, span) == Instruction("Call", name, FALSE, 0, 0, typ, span)
Return(typ, span) == Instruction("Return", "", FALSE, 0, 0, typ, span)

IsReturn(i) == i.ins = "Return"

IRProc(name, args, arg_types, ret_type, body) ==
    [name |-> name, args |-> args, arg_types |-> arg_types, ret_type |-> ret_type,
     body |-> body]

(***************************************************************************)
(* astgen.rs: Node.  One record shape for every variant: s is the name,    *)
(* op, value or path, kids the child nodes in declaration order.           *)
(***************************************************************************)
NoSpan == <<0, 0>>
Node(kind, s, typ, kids, span) ==
    [kind |-> kind, s |-> s, typ |-> typ, kids |-> kids, args |-> <<>>,
     arg_types |-> <<>>, span |-> span]
Literal(typ, value, span) == Node("Literal", value, typ, <<>>, span)
CallNode(name, args, span) == Node("Call", name, Undefined, args, span)
InfixOp(op, left, right) == Node("InfixOp", op, Undefined, <<left, right>>, NoSpan)
PrefixOp(op, right, span) == Node("PrefixOp", op, Undefined, <<right>>, span)
PostfixOp(op, left) == Node("PostfixOp", op, Undefined, <<left>>, NoSpan)
IndexOp(object, index) == Node("IndexOp", "", Undefined, <<object, index>>, NoSpan)
VariableRef(name, span) == Node("VariableRef", name, Undefined, <<>>, span)
IfStatement(condition, body, else_body) ==
    Node("IfStatement", "", Undefined, <<condition, body, else_body>>, NoSpan)
WhileStatement(condition, body) ==
    Node("WhileStatement", "", Undefined, <<condition, body>>, NoSpan)
Block(nodes) == Node("Block", "", Undefined, nodes, NoSpan)
VarStatement(name, typ, value) == Node("VarStatement", name, typ, <<value>>, NoSpan)
ConstStatement(name, typ, value) == Node("ConstStatement", name, typ, <<value>>, NoSpan)
AssignStatement(name, value) == Node("AssignStatement", name, Undefined, <<value>>, NoSpan)
IndexedAssignStatement(name, index, value) ==
    Node("IndexedAssignStatement", name, Undefined, <<index, value>>, NoSpan)
ProcStatement(name, args, arg_types, ret_type, body) ==
    [kind |-> "ProcStatement", s |-> name, typ |-> ret_type, kids |-> <<body>>,
     args |-> args, arg_types |-> arg_types, span |-> NoSpan]
ReturnStatement(val) == Node("ReturnStatement", "", Undefined, <<val>>, NoSpan)
UseStatement(path) == Node("UseStatement", path, Undefined, <<>>, NoSpan)

(***************************************************************************)
(* The builder as one value: the fields of IRBuilder plus the error log.   *)
(***************************************************************************)
Builder(tv, lbl, sc, ps, cs, errs) ==
    [available_type_var |-> tv, available_label_id |-> lbl, scopes |-> sc,
     procs |-> ps, consts |-> cs, errors |-> errs]

\* errors.rs Logger::log
Logger_log(b, typ, msg, arg, span) ==
    [b EXCEPT !.errors = Append(@, [typ |-> typ, msg |-> msg, arg |-> arg,
                                    pos |-> span[1], len |-> span[2]])]
Logger_name_error(b, msg, arg, span) == Logger_log(b, "NameError", msg, arg, span)
Logger_syntax_error(b, msg, arg, span) == Logger_log(b, "SyntaxError", msg, arg, span)

\* HashMap::insert on a scope or on consts
Insert(map, key, val) == (key :> val) @@ map
EmptyMap == [x \in {} |-> 0]

SetMax(S) == CHOOSE x \in S : \A y \in S : y <= x
SetMin(S) == CHOOSE x \in S : \A y \in S : x <= y

\* ir.rs IRBuilder::next_type_var / next_label_id: the value returned is the old counter
next_type_var(b) == [b EXCEPT !.available_type_var = @ + 1]
next_label_id(b) == [b EXCEPT !.available_label_id = @ + 1]

\* ir.rs IRBuilder::locate_var: innermost scope first; a miss logs a NameError at (0, 0)
locate_var(b, name) ==
    LET hits == {i \in 1..Len(b.scopes) : name \in DOMAIN b.scopes[i]}
    IN  IF hits # {}
        THEN [ok |-> "Some", typ |-> b.scopes[SetMax(hits)][name], b |-> b]
        ELSE [ok |-> "None", typ |-> Undefined,
              b |-> Logger_name_error(b, "Can't find a variable named", name, NoSpan)]

locate_proc_silent(b, name) ==
    LET hits == {i \in 1..Len(b.procs) : b.procs[i].name = name}
    IN  IF hits # {}
        THEN [ok |-> "Some", proc |-> b.procs[SetMin(hits)], b |-> b]
        ELSE [ok |-> "None", proc |-> IRProc("", <<>>, <<>>, Undefined, <<>>), b |-> b]

\* ir.rs IRBuilder::locate_proc: the first procedure of that name
locate_proc(b, name) ==
    LET hits == {i \in 1..Len(b.procs) : b.procs[i].name = name}
    IN  IF hits # {}
        THEN [ok |-> "Some", proc |-> b.procs[SetMin(hits)], b |-> b]
        ELSE [ok |-> "None", proc |-> IRProc("", <<>>, <<>>, Undefined, <<>>),
              b |-> Logger_name_error(b, "Can't find a procedure named", name, NoSpan)]

(***************************************************************************)
(* ir.rs: the lowering.  IRResult is Option<Vec<Span<Instruction>>>; a     *)
(* result here is [ok, ins, b]: ok is "Some" or "None", or "Panic" when    *)
(* the code reaches todo!(), unreachable!(), panic!() or unwraps nothing,  *)
(* or "Overflow" when the recursion exhausts the stack; b is the builder   *)
(* as the call leaves it.  k is the number of constant inlinings left.     *)
(***************************************************************************)
RECURSIVE node(_, _, _)
RECURSIVE node_list(_, _, _)

Res(ok, ins, b) == [ok |-> ok, ins |-> ins, b |-> b]
Last(s) == s[Len(s)]
\* the value of a `let x = e;`: in {body : x \in {e}} the call e is made once, and
\* Only takes the body's value out
Only(S) == CHOOSE x \in S : TRUE

\* ir.rs IRBuilder::literal
literal(n, b, k) == Res("Some", <<Push(n.s, n.typ, n.span)>>, b)

\* the loop `for x in nodes { res.append(&mut self.node(&x)?); }` of call, block, proc_statement
node_list(nodes, b, k) ==
    IF nodes = <<>> THEN Res("Some", <<>>, b)
    ELSE Only({IF h.ok # "Some" THEN h
               ELSE Only({IF t.ok # "Some" THEN t ELSE Res("Some", h.ins \o t.ins, t.b) :
                          t \in {node_list(Tail(nodes), h.b, k)}}) :
               h \in {node(Head(nodes), b, k)}})

\* ir.rs IRBuilder::call
call(n, b, k) ==
    LET p == locate_proc(b, n.s)
    IN  IF p.ok # "Some" THEN Res("None", <<>>, p.b)
        ELSE LET a == node_list(n.kids, b, k)
             IN  IF a.ok # "Some" THEN a
                 ELSE Res("Some", Append(a.ins, Call(p.proc.name, p.proc.ret_type, n.span)),
                          a.b)

\* the operators infix_op has an arm for; any other reaches todo!()
InfixOps == {"+", "-", "*", "+~", "-~", "*~", "//", "/", "==", "!=", ">", "<", ">=", "<="}
\* the match of infix_op: operator to instruction
InfixInstruction(op, typ, span) ==
    CASE op = "+" -> Instruction("Add", "", FALSE, 0, 0, typ, span)
      [] op = "-" -> Instruction("Subtract", "", FALSE, 0, 0, typ, span)
      [] op = "*" -> Instruction("Multiply", "", FALSE, 0, 0, typ, span)
      [] op = "+~" -> Instruction("Add", "", TRUE, 0, 0, typ, span)
      [] op = "-~" -> Instruction("Subtract", "", TRUE, 0, 0, typ, span)
      [] op = "*~" -> Instruction("Multiply", "", TRUE, 0, 0, typ, span)
      [] op = "//" -> Instruction("IntDivide", "", FALSE, 0, 0, typ, span)
      [] op = "/" -> Instruction("Divide", "", FALSE, 0, 0, typ, span)
      [] op = "==" -> Instruction("Compare", "EQ", FALSE, 0, 0, typ, span)
      [] op = "!=" -> Instruction("Compare", "NE", FALSE, 0, 0, typ, span)
      [] op = ">" -> Instruction("Compare", "GT", FALSE, 0, 0, typ, span)
      [] op = "<" -> Instruction("Compare", "LT", FALSE, 0, 0, typ, span)
      [] op = ">=" -> Instruction("Compare", "GE", FALSE, 0, 0, typ, span)
      [] op = "<=" -> Instruction("Compare", "LE", FALSE, 0, 0, typ, span)

\* ir.rs IRBuilder::infix_op
infix_op(n, b, k) ==
    LET l == node(n.kids[1], b, k)
    IN  IF l.ok # "Some" THEN l
        ELSE LET r == node(n.kids[2], l.b, k)
             IN  IF r.ok # "Some" THEN r
                 ELSE IF n.s \notin InfixOps THEN Res("Panic", <<>>, r.b)
                 ELSE Res("Some",
                          l.ins \o r.ins \o
                            <<InfixInstruction(n.s, TVar(r.b.available_type_var), n.span)>>,
                          next_type_var(r.b))

\* ir.rs IRBuilder::prefix_op
prefix_op(n, b, k) ==
    LET r == node(n.kids[1], b, k)
    IN  IF r.ok # "Some" THEN r
        ELSE IF n.s \notin {"-", "-~"} THEN Res("Panic", <<>>, r.b)
        ELSE Res("Some",
                 Append(r.ins, Instruction("Negate", "", n.s = "-~", 0, 0,
                                           TVar(r.b.available_type_var), n.span)),
                 next_type_var(r.b))

\* ir.rs IRBuilder::postfix_op: todo!()
postfix_op(n, b, k) == Res("Panic", <<>>, b)

\* ir.rs IRBuilder::index_op: todo!()
index_op(n, b, k) == Res("Panic", <<>>, b)

variable_ref_scopes_first(n, b, k) ==
    IF \E i \in DOMAIN b.scopes : n.s \in DOMAIN b.scopes[i]
    THEN Res("Some", <<Load(n.s, locate_var(b, n.s).typ, n.span)>>, b)
    ELSE IF n.s \in DOMAIN b.consts
    THEN IF k = 0 THEN Res("Overflow", <<>>, b) ELSE node(b.consts[n.s], b, k - 1)
    ELSE Res("None", <<>>, locate_var(b, n.s).b)

\* ir.rs IRBuilder::variable_ref
variable_ref(n, b, k) ==
    IF n.s \in DOMAIN b.consts
    THEN IF k = 0 THEN Res("Overflow", <<>>, b) ELSE node(b.consts[n.s], b, k - 1)
    ELSE LET v == locate_var(b, n.s)
         IN  IF v.ok # "Some" THEN Res("None", <<>>, v.b)
             ELSE Res("Some", <<Load(n.s, v.typ, n.span)>>, b)

if_end_label_below_one(res, blocks_ending_in_return, end_label, span) ==
    IF blocks_ending_in_return < 1 THEN Append(res, Label(end_label, span)) ELSE res

if_end_label_always(res, blocks_ending_in_return, end_label, span) ==
    Append(res, Label(end_label, span))

\* the end of if_statement: `if blocks_ending_in_return < 2 { res.push(Label(end_label)) }`
if_end_label(res, blocks_ending_in_return, end_label, span) ==
    IF blocks_ending_in_return < 2 THEN Append(res, Label(end_label, span)) ELSE res

\* ir.rs IRBuilder::if_statement
if_statement(n, b, k) ==
    LET body_label == b.available_label_id
        else_label == b.available_label_id + 1
        end_label == b.available_label_id + 2
        c == node(n.kids[1], next_label_id(next_label_id(next_label_id(b))), k)
    IN  IF c.ok # "Some" THEN c
        ELSE
        LET res1 == c.ins \o <<Branch(body_label, else_label, n.span),
                               Label(body_label, n.span)>>
            t == node(n.kids[2], c.b, k)
        IN  IF t.ok # "Some" THEN t
            ELSE
            LET res2 == res1 \o t.ins
                body_returns == IsReturn(Last(res2))
                res3 == IF body_returns THEN res2
                        ELSE Append(res2, Jump(end_label, n.span))
                res4 == Append(res3, Label(else_label, n.span))
                e == node(n.kids[3], t.b, k)
            IN  IF e.ok # "Some" THEN e
                ELSE
                LET res5 == res4 \o e.ins
                    else_returns == IsReturn(Last(res5))
                    res6 == IF else_returns THEN res5
                            ELSE Append(res5, Jump(end_label, n.span))
                    blocks_ending_in_return ==
                        2 - (IF body_returns THEN 0 ELSE 1) - (IF else_returns THEN 0 ELSE 1)
                IN  Res("Some", if_end_label(res6, blocks_ending_in_return, end_label, n.span),
                        e.b)

while_back_jump_always(res, cond_label, span) == Append(res, Jump(cond_label, span))

\* while_statement after the body: `if res.last() != Return { res.push(Jump(cond_label)) }`
while_back_jump(res, cond_label, span) ==
    IF IsReturn(Last(res)) THEN res ELSE Append(res, Jump(cond_label, span))

\* ir.rs IRBuilder::while_statement
while_statement(n, b, k) ==
    LET cond_label == b.available_label_id
        body_label == b.available_label_id + 1
        end_label == b.available_label_id + 2
        res1 == <<Jump(cond_label, n.span), Label(cond_label, n.span)>>
        c == node(n.kids[1], next_label_id(next_label_id(next_label_id(b))), k)
    IN  IF c.ok # "Some" THEN c
        ELSE
        LET res2 == res1 \o c.ins \o <<Branch(body_label, end_label, n.span),
                                       Label(body_label, n.span)>>
            t == node(n.kids[2], c.b, k)
        IN  IF t.ok # "Some" THEN t
            ELSE
            LET res3 == res2 \o t.ins
                body_returns == IsReturn(Last(res3))
                res4 == while_back_jump(res3, cond_label, n.span)
                blocks_ending_in_return == 1 - (IF body_returns THEN 0 ELSE 1)
            IN  Res("Some",
                    IF blocks_ending_in_return < 2
                    THEN Append(res4, Label(end_label, n.span))
                    ELSE res4,
                    t.b)

\* ir.rs IRBuilder::block
block(n, b, k) == node_list(n.kids, b, k)

\* ir.rs IRBuilder::var_statement: the scope entry is made before the value is lowered
var_statement(n, b, k) ==
    IF b.scopes = <<>> THEN Res("Panic", <<>>, b)
    ELSE LET b1 == [b EXCEPT !.scopes[Len(b.scopes)] = Insert(@, n.s, n.typ)]
             v == node(n.kids[1], b1, k)
         IN  IF v.ok # "Some" THEN v
             ELSE Res("Some", Append(v.ins, Allocate(n.s, n.typ, n.span)), v.b)

\* ir.rs IRBuilder::assign_statement
assign_statement(n, b, k) ==
    LET v == node(n.kids[1], b, k)
    IN  IF v.ok # "Some" THEN v
        ELSE LET t == locate_var(v.b, n.s)
             IN  IF t.ok # "Some" THEN Res("None", <<>>, t.b)
                 ELSE Res("Some", Append(v.ins, Store(n.s, t.typ, n.span)), v.b)

\* ir.rs IRBuilder::return_statement
return_statement(n, b, k) ==
    LET v == node(n.kids[1], b, k)
    IN  IF v.ok # "Some" THEN v
        ELSE IF v.ins = <<>> THEN Res("Panic", <<>>, v.b)
        ELSE Res("Some", Append(v.ins, Return(Last(v.ins).typ, n.span)), v.b)

\* ir.rs IRBuilder::node
node(n, b, k) ==
    CASE n.kind = "Literal" -> literal(n, b, k)
      [] n.kind = "Call" -> call(n, b, k)
      [] n.kind = "InfixOp" -> infix_op(n, b, k)
      [] n.kind = "PrefixOp" -> prefix_op(n, b, k)
      [] n.kind = "PostfixOp" -> postfix_op(n, b, k)
      [] n.kind = "IndexOp" -> index_op(n, b, k)
      [] n.kind = "VariableRef" -> variable_ref(n, b, k)
      [] n.kind = "IfStatement" -> if_statement(n, b, k)
      [] n.kind = "WhileStatement" -> while_statement(n, b, k)
      [] n.kind = "Block" -> block(n, b, k)
      [] n.kind = "VarStatement" -> var_statement(n, b, k)
      [] n.kind = "ConstStatement" ->
            Res("None", <<>>,
                Logger_syntax_error(b, "Found const statement not at top level. This feature is NYI.",
                                    "", n.span))
      [] n.kind = "AssignStatement" -> assign_statement(n, b, k)
      [] n.kind = "ReturnStatement" -> return_statement(n, b, k)
      [] OTHER -> Res("Panic", <<>>, b)

\* ir.rs IRBuilder::const_statement
const_statement(n, b) == [b EXCEPT !.consts = Insert(@, n.s, n.kids[1])]

\* proc_statement on entry: a fresh scope holding the parameters is pushed
enter_proc(n, b) ==
    LET params == [x \in {n.args[i] : i \in DOMAIN n.args} |->
                      n.arg_types[SetMax({i \in DOMAIN n.args : n.args[i] = x})]]
    IN  [b EXCEPT !.scopes = Append(@, params)]

\* ir.rs IRBuilder::proc_statement; the result's ins is the body of the IRProc returned
proc_statement(n, b, k) ==
    LET b1 == enter_proc(n, b)
        body == n.kids[1]
    IN  IF body.kind # "Block" THEN Res("Panic", <<>>, b1)
        ELSE Only({IF r.ok # "Some" THEN r
                   ELSE IF n.typ = Undefined /\ Len(body.kids) > 0
                   THEN Res("Some",
                            r.ins \o <<Push("undefined", Undefined, n.span),
                                       Return(Undefined, n.span)>>,
                            r.b)
                   ELSE r :
                   r \in {node_list(body.kids, b1, k)}})

\* ir.rs IRBuilder::build_header
build_header(b) ==
    [b EXCEPT !.procs = Append(@, IRProc("puts", <<"s">>, <<PtrI8>>, I32, <<>>))]

RECURSIVE declare(_, _)
\* ir.rs IRBuilder::go, first loop: declare all procedures and constants
declare(nodes, b) ==
    IF nodes = <<>> THEN [ok |-> "Some", b |-> b]
    ELSE LET n == Head(nodes)
         IN  CASE n.kind = "ConstStatement" -> declare(Tail(nodes), const_statement(n, b))
               [] n.kind = "ProcStatement" ->
                    declare(Tail(nodes),
                            [b EXCEPT !.procs =
                                Append(@, IRProc(n.s, n.args, n.arg_types, n.typ, <<>>))])
               [] OTHER ->
                    [ok |-> "None",
                     b |-> Logger_syntax_error(b, "is not allowed at the top level of a module",
                                               n.kind, n.span)]

\* the FIXME loop of go: the first procedure of that name is replaced
replace_proc(ps, p) ==
    LET hits == {i \in 1..Len(ps) : ps[i].name = p.name}
    IN  IF hits = {} THEN ps ELSE [ps EXCEPT ![SetMin(hits)] = p]

RECURSIVE generate(_, _)
\* ir.rs IRBuilder::go, second loop: generate the code of each procedure
generate(nodes, b) ==
    IF nodes = <<>> THEN [ok |-> "Some", b |-> b]
    ELSE LET n == Head(nodes)
         IN  CASE n.kind = "ConstStatement" -> generate(Tail(nodes), const_statement(n, b))
               [] n.kind = "ProcStatement" ->
                    Only({IF r.ok # "Some" THEN [ok |-> r.ok, b |-> r.b]
                          ELSE generate(Tail(nodes),
                                        [r.b EXCEPT !.procs =
                                            replace_proc(@, IRProc(n.s, n.args, n.arg_types,
                                                                   n.typ, r.ins))]) :
                          r \in {proc_statement(n, b, MaxInline)}})
               [] OTHER -> [ok |-> "Panic", b |-> b]

go_single_pass(nodes, b) == generate(nodes, build_header(b))

\* ir.rs IRBuilder::go
go(nodes, b) ==
    LET d == declare(nodes, build_header(b))
    IN  IF d.ok # "Some" THEN d ELSE generate(nodes, d.b)

(***************************************************************************)
(* analysis.rs: the type inferencer.  Constraints is Vec<(Type, Type)>.    *)
(***************************************************************************)
\* the number of sweeps of solve_constraints: `for _ in 1..4`
Sweeps == 3

\* the pair stored as it comes, with no swap
add_constraint_unswapped(cs, b, t1in, t2in) ==
    LET b1 == IF t1in = Unknown THEN next_type_var(b) ELSE b
        b2 == IF t2in = Unknown THEN next_type_var(b1) ELSE b1
    IN  [cs |-> Only({IF t1 = t2 THEN cs
                      ELSE IF t1 = StrLiteral \/ t2 = StrLiteral THEN cs
                      ELSE IF t1 = Undefined \/ t2 = Undefined THEN cs
                      ELSE Append(cs, <<t1, t2>>) :
                      t1 \in {IF t1in = Unknown THEN TVar(b.available_type_var) ELSE t1in},
                      t2 \in {IF t2in = Unknown THEN TVar(b1.available_type_var) ELSE t2in}}),
         b |-> b2]
\* analysis.rs IRBuilder::add_constraint; the result is the list and the builder
add_constraint(cs, b, t1in, t2in) ==
    LET b1 == IF t1in = Unknown THEN next_type_var(b) ELSE b
        b2 == IF t2in = Unknown THEN next_type_var(b1) ELSE b1
    IN  [cs |-> Only({IF t1 = t2 THEN cs
                      ELSE IF t1 = StrLiteral \/ t2 = StrLiteral THEN cs
                      ELSE IF t1 = Undefined \/ t2 = Undefined THEN cs
                      ELSE IF IsVariable(t2) THEN Append(cs, <<t2, t1>>)
                      ELSE IF t2 = IntLiteral \/ t2 = FloatLiteral \/ t2 = StrLiteral
                      THEN Append(cs, <<t2, t1>>)
                      ELSE Append(cs, <<t1, t2>>) :
                      t1 \in {IF t1in = Unknown THEN TVar(b.available_type_var) ELSE t1in},
                      t2 \in {IF t2in = Unknown THEN TVar(b1.available_type_var) ELSE t2in}}),
         b |-> b2]

\* the walk of gen_constraints as one value: [ok, cs, stack, b]
Walk(ok, cs, stack, b) == [ok |-> ok, cs |-> cs, stack |-> stack, b |-> b]
Pop(stack) == SubSeq(stack, 1, Len(stack) - 1)
\* Vec::remove(i) with i counted from 0
Remove(stack, i) == SubSeq(stack, 1, i) \o SubSeq(stack, i + 2, Len(stack))

RECURSIVE call_args(_, _, _, _)
\* the loop over proc.arg_types of the Call arm: each round removes the entry at
\* stack.len() - arg_count, with stack.len() read anew
call_args(w, arg_types, i, arg_count) ==
    IF i > Len(arg_types) THEN w
    ELSE IF Len(w.stack) - arg_count < 0 THEN Walk("Panic", w.cs, w.stack, w.b)
    ELSE LET at == Len(w.stack) - arg_count
             a == add_constraint(w.cs, w.b, w.stack[at + 1], arg_types[i])
         IN  call_args(Walk("Some", a.cs, Remove(w.stack, at), a.b), arg_types, i + 1,
                       arg_count)

\* one round of the loop of gen_constraints: the match on ins.contents.ins
gen_step(proc, ins, w) ==
    CASE ins.ins = "Push" -> Walk("Some", w.cs, Append(w.stack, ins.typ), w.b)
      [] ins.ins = "Load" ->
            LET v == locate_var(w.b, ins.s)
            IN  IF v.ok # "Some" THEN Walk("None", w.cs, w.stack, v.b)
                ELSE Walk("Some", w.cs, Append(w.stack, v.typ), w.b)
      [] ins.ins = "Store" ->
            IF w.stack = <<>> THEN Walk("Panic", w.cs, w.stack, w.b)
            ELSE LET a1 == add_constraint(w.cs, w.b, ins.typ, Last(w.stack))
                     v == locate_var(a1.b, ins.s)
                 IN  IF v.ok # "Some" THEN Walk("None", a1.cs, Pop(w.stack), v.b)
                     ELSE LET a2 == add_constraint(a1.cs, a1.b, ins.typ, v.typ)
                          IN  Walk("Some", a2.cs, Pop(w.stack), a2.b)
      [] ins.ins = "Allocate" ->
            IF w.stack = <<>> \/ w.b.scopes = <<>> THEN Walk("Panic", w.cs, w.stack, w.b)
            ELSE LET b1 == [w.b EXCEPT !.scopes[Len(w.b.scopes)] = Insert(@, ins.s, ins.typ)]
                     a == add_constraint(w.cs, b1, ins.typ, Last(w.stack))
                 IN  Walk("Some", a.cs, Pop(w.stack), a.b)
      [] ins.ins = "Branch" ->
            IF w.stack = <<>> THEN Walk("Panic", w.cs, w.stack, w.b)
            ELSE LET a == add_constraint(w.cs, w.b, Last(w.stack), Bool)
                 IN  Walk("Some", a.cs, Pop(w.stack), a.b)
      [] ins.ins \in {"Jump", "Label"} -> w
      [] ins.ins = "Call" ->
            LET p == locate_proc(w.b, ins.s)
            IN  IF p.ok # "Some" THEN Walk("None", w.cs, w.stack, p.b)
                ELSE LET r == call_args(w, p.proc.arg_types, 1, Len(p.proc.arg_types))
                     IN  IF r.ok # "Some" THEN r
                         ELSE Walk("Some", r.cs, Append(r.stack, p.proc.ret_type), r.b)
      [] ins.ins = "Return" ->
            IF w.stack = <<>> THEN Walk("Panic", w.cs, w.stack, w.b)
            ELSE LET a == add_constraint(w.cs, w.b, Last(w.stack), proc.ret_type)
                 IN  Walk("Some", a.cs, Pop(w.stack), a.b)
      [] ins.ins = "Negate" ->
            IF w.stack = <<>> THEN Walk("Panic", w.cs, w.stack, w.b)
            ELSE LET a == add_constraint(w.cs, w.b, Last(w.stack), ins.typ)
                 IN  Walk("Some", a.cs, Pop(w.stack), a.b)
      [] ins.ins \in {"Add", "Subtract", "Multiply", "IntDivide", "Divide"} ->
            IF Len(w.stack) < 2 THEN Walk("Panic", w.cs, w.stack, w.b)
            ELSE LET t1 == w.stack[Len(w.stack)]
                     t2 == w.stack[Len(w.stack) - 1]
                     a1 == add_constraint(w.cs, w.b, t1, t2)
                     a2 == add_constraint(a1.cs, a1.b, t1, ins.typ)
                     a3 == add_constraint(a2.cs, a2.b, t2, ins.typ)
                 IN  Walk("Some", a3.cs, Append(Pop(Pop(w.stack)), ins.typ), a3.b)
      [] ins.ins = "Compare" ->
            IF Len(w.stack) < 2 THEN Walk("Panic", w.cs, w.stack, w.b)
            ELSE LET t1 == w.stack[Len(w.stack)]
                     t2 == w.stack[Len(w.stack) - 1]
                     a1 == add_constraint(w.cs, w.b, t1, t2)
                     a2 == add_constraint(a1.cs, a1.b, ins.typ, Bool)
                 IN  Walk("Some", a2.cs, Append(Pop(Pop(w.stack)), Bool), a2.b)

RECURSIVE gen_loop(_, _, _, _)
\* the loop `for ins in &proc.body` of gen_constraints over instructions lo..hi, in
\* order, leaving at the first `?` that fails; the range is walked as two halves, the
\* second from where the first ends
gen_loop(proc, lo, hi, w) ==
    IF w.ok # "Some" \/ lo > hi THEN w
    ELSE IF lo = hi THEN gen_step(proc, proc.body[lo], w)
    ELSE LET mid == (lo + hi) \div 2
         IN  gen_loop(proc, mid + 1, hi, gen_loop(proc, lo, mid, w))

\* analysis.rs IRBuilder::gen_constraints
gen_constraints(proc, b) == gen_loop(proc, 1, Len(proc.body), Walk("Some", <<>>, <<>>, b))

substitute_typ_reversed(typ, t1, t2) == IF typ = t2 THEN t1 ELSE typ

\* analysis.rs substitute_proc_body, the typ of one instruction: an exact match of t1
\* becomes t2
substitute_typ(typ, t1, t2) == IF typ = t1 THEN t2 ELSE typ

\* analysis.rs substitute_constraints: in every pair, a side equal to t1 becomes t2
substitute_constraints(constraints, t1, t2) ==
    [i \in DOMAIN constraints |->
        <<IF constraints[i][1] = t1 THEN t2 ELSE constraints[i][1],
          IF constraints[i][2] = t1 THEN t2 ELSE constraints[i][2]>>]

RECURSIVE new_constraints(_, _)
\* the local new_constraints of solve_constraints after the first j rounds of the first
\* sweep: the clone of the list, rewritten once per round with that round's (t1, t2)
new_constraints(constraints, j) ==
    IF j = 0 THEN constraints
    ELSE substitute_constraints(new_constraints(constraints, j - 1),
                                constraints[j][1], constraints[j][2])

\* the (t1, t2) of round j of a sweep: `for (t1, t2) in constraints` walks the list
\* solve_constraints was given
applied_constraint(constraints, j) == constraints[j]

RECURSIVE sweep(_, _, _, _)
\* the inner loop `for (t1, t2) in constraints` of solve_constraints over pairs lo..hi,
\* in order, as it acts on the typ of one instruction (substitute_proc_body rewrites
\* each instruction on its own); the pairs applied are those of `constraints` as
\* generated; the range is walked as two halves, the second on the result of the first
sweep(constraints, lo, hi, typ) ==
    IF lo > hi THEN typ
    ELSE IF lo = hi THEN substitute_typ(typ, constraints[lo][1], constraints[lo][2])
    ELSE LET mid == (lo + hi) \div 2
         IN  sweep(constraints, mid + 1, hi, sweep(constraints, lo, mid, typ))

RECURSIVE sweeps(_, _, _)
\* the outer loop of solve_constraints: n sweeps; a sweep that leaves typ as it was
\* leaves it so in every later sweep, the pairs being the same each time
sweeps(constraints, n, typ) ==
    IF n = 0 THEN typ
    ELSE LET swept == sweep(constraints, 1, Len(constraints), typ)
         IN  IF swept = typ THEN typ ELSE sweeps(constraints, n - 1, swept)

\* analysis.rs IRBuilder::solve_constraints
solve_constraints(proc, constraints) ==
    IRProc(proc.name, proc.args, proc.arg_types, proc.ret_type,
           [i \in 1..Len(proc.body) |->
               [proc.body[i] EXCEPT !.typ = sweeps(constraints, Sweeps, @)]])

RECURSIVE analyze_loop_in_place(_, _, _)
\* the loop of analyze, were each solved procedure written back as soon as it is solved
analyze_loop_in_place(index, new_procs, b) ==
    IF index > Len(b.procs) THEN [ok |-> "Some", b |-> [b EXCEPT !.procs = new_procs]]
    ELSE LET proc == b.procs[index]
             scope == [x \in {proc.args[i] : i \in DOMAIN proc.arg_types} |->
                          proc.arg_types[SetMax({i \in DOMAIN proc.arg_types :
                                                    proc.args[i] = x})]]
             b1 == [b EXCEPT !.scopes = Append(@, scope)]
         IN  Only({IF g.ok # "Some"
                   THEN [ok |-> g.ok,
                         b |-> [g.b EXCEPT !.procs = new_procs \o SubSeq(@, index, Len(@))]]
                   ELSE analyze_loop_in_place(index + 1,
                                              Append(new_procs, solve_constraints(proc, g.cs)),
                                              g.b) :
                   g \in {gen_constraints(proc, b1)}})

RECURSIVE analyze_loop(_, _, _)
\* the loop `while index < self.procs.len()` of analyze
analyze_loop(index, new_procs, b) ==
    IF index > Len(b.procs) THEN [ok |-> "Some", b |-> [b EXCEPT !.procs = new_procs]]
    ELSE LET proc == b.procs[index]
             scope == [x \in {proc.args[i] : i \in DOMAIN proc.arg_types} |->
                          proc.arg_types[SetMax({i \in DOMAIN proc.arg_types :
                                                    proc.args[i] = x})]]
             b1 == [b EXCEPT !.scopes = Append(@, scope)]
         IN  Only({IF g.ok # "Some" THEN [ok |-> g.ok, b |-> g.b]
                   ELSE analyze_loop(index + 1,
                                     Append(new_procs, solve_constraints(proc, g.cs)), g.b) :
                   g \in {gen_constraints(proc, b1)}})

\* analysis.rs IRBuilder::analyze
analyze(b) == analyze_loop(1, <<>>, [b EXCEPT !.scopes = <<>>])

(***************************************************************************)
(* llvm.rs: Generator.  An LLVMValueRef is the term that built it: op is   *)
(* the LLVMBuild*/LLVMConst* call, s its name, constant or predicate and   *)
(* args its value operands in the order of the call.  g is the generator:  *)
(* ok, its stack, lookup (the allocated names), labels, llvm_procs (name   *)
(* to parameter count) and built, the stores and terminators emitted.      *)
(***************************************************************************)
Value(op, s, args) == [op |-> op, s |-> s, args |-> args]
IntTypes == {"I8", "I16", "I32", "I64", "I128"}
NatTypes == {"N8", "N16", "N32", "N64", "N128"}
FloatTypes == {"F32", "F64", "F128"}
\* the types llvm_type has an arm for; any other is unreachable!()
LLVMTypes == IntTypes \cup NatTypes \cup FloatTypes \cup {"Bool", "Ptr(I8)", "Undefined"}

\* Generator::new
Generator_new ==
    [ok |-> "Some", stack |-> <<>>, lookup |-> {}, labels |-> {}, llvm_procs |-> EmptyMap,
     built |-> <<>>]
GenPanic(g) == [g EXCEPT !.ok = "Panic"]
\* self.stack.pop().unwrap() i times over: the values popped, the first popped first
GenPopped(g, i) == [j \in 1..i |-> g.stack[Len(g.stack) + 1 - j]]
GenPop(g, i) == [g EXCEPT !.stack = SubSeq(@, 1, Len(@) - i)]
GenPush(g, v) == [g EXCEPT !.stack = Append(@, v)]
Emit(g, v) == [g EXCEPT !.built = Append(@, v)]

\* llvm.rs Generator::push
Generator_push(g, s, typ) ==
    CASE typ.tag \in IntTypes \cup NatTypes -> GenPush(g, Value("ConstInt", s, <<>>))
      [] typ.tag \in FloatTypes -> GenPush(g, Value("ConstReal", s, <<>>))
      [] typ.tag = "Undefined" -> GenPush(g, Value("Undef", "", <<>>))
      [] typ.tag = "StrLiteral" -> GenPush(g, Value("GlobalStringPtr", s, <<>>))
      [] OTHER -> GenPanic(g)

\* llvm.rs Generator::load
Generator_load(g, s, typ) ==
    IF s \notin g.lookup \/ typ.tag \notin LLVMTypes THEN GenPanic(g)
    ELSE GenPush(g, Value("Load", s, <<>>))

\* llvm.rs Generator::store
Generator_store(g, s) ==
    IF s \notin g.lookup \/ g.stack = <<>> THEN GenPanic(g)
    ELSE Emit(GenPop(g, 1), Value("Store", s, GenPopped(g, 1)))

\* llvm.rs Generator::allocate
Generator_allocate(g, s, typ) ==
    IF typ.tag \notin LLVMTypes \/ g.stack = <<>> THEN GenPanic(g)
    ELSE Emit([GenPop(g, 1) EXCEPT !.lookup = @ \cup {s}], Value("Store", s, GenPopped(g, 1)))

\* llvm.rs Generator::call: the arguments are handed over in the order they are popped
Generator_call(g, proc_name) ==
    IF proc_name \notin DOMAIN g.llvm_procs THEN GenPanic(g)
    ELSE LET arg_count == g.llvm_procs[proc_name]
         IN  IF Len(g.stack) < arg_count THEN GenPanic(g)
             ELSE GenPush(GenPop(g, arg_count), Value("Call", proc_name, GenPopped(g, arg_count)))

\* llvm.rs Generator::return_
Generator_return(g, typ) ==
    IF typ.tag = "Undefined" THEN Emit(g, Value("RetVoid", "", <<>>))
    ELSE IF g.stack = <<>> THEN GenPanic(g)
    ELSE Emit(GenPop(g, 1), Value("Ret", "", GenPopped(g, 1)))

\* the name of the build call of an arithmetic instruction on a type
Flagged(name, typ, wrap) ==
    CASE typ.tag \in FloatTypes -> "F" \o name
      [] wrap -> name
      [] typ.tag \in IntTypes -> "NSW" \o name
      [] OTHER -> "NUW" \o name
Arithmetic == IntTypes \cup NatTypes \cup FloatTypes

\* llvm.rs Generator::negate
Generator_negate(g, typ, wrap) ==
    IF typ.tag \notin Arithmetic \/ g.stack = <<>> THEN GenPanic(g)
    ELSE GenPush(GenPop(g, 1), Value(Flagged("Neg", typ, wrap), "", GenPopped(g, 1)))

\* llvm.rs Generator::add / multiply: the operands are the two pops, written in the
\* argument list of the build call
Generator_commutative(g, name, typ, wrap) ==
    IF typ.tag \notin Arithmetic \/ Len(g.stack) < 2 THEN GenPanic(g)
    ELSE GenPush(GenPop(g, 2), Value(Flagged(name, typ, wrap), "", GenPopped(g, 2)))

\* llvm.rs Generator::subtract: v1 and v2 are popped first, the call is built on (v2, v1)
Generator_subtract(g, typ, wrap) ==
    IF Len(g.stack) < 2 \/ typ.tag \notin Arithmetic THEN GenPanic(g)
    ELSE LET v1 == GenPopped(g, 2)[1]
             v2 == GenPopped(g, 2)[2]
         IN  GenPush(GenPop(g, 2), Value(Flagged("Sub", typ, wrap), "", <<v2, v1>>))

\* llvm.rs Generator::int_divide
Generator_int_divide(g, typ) ==
    IF typ.tag \notin IntTypes \cup NatTypes \/ Len(g.stack) < 2 THEN GenPanic(g)
    ELSE GenPush(GenPop(g, 2),
                 Value(IF typ.tag \in IntTypes THEN "SDiv" ELSE "UDiv", "", GenPopped(g, 2)))

\* llvm.rs Generator::divide
Generator_divide(g, typ) ==
    IF typ.tag \notin FloatTypes \/ Len(g.stack) < 2 THEN GenPanic(g)
    ELSE GenPush(GenPop(g, 2), Value("FDiv", "", GenPopped(g, 2)))

\* the predicate tables of compare
Predicate(comptype, typ) ==
    CASE typ.tag \in IntTypes ->
             (IF comptype \in {"EQ", "NE"} THEN "Int" ELSE "IntS") \o comptype
      [] typ.tag \in NatTypes ->
             IF comptype \in {"EQ", "NE"} THEN "Int" \o comptype
             ELSE IF comptype = "LT" THEN "IntUGT" ELSE "IntU" \o comptype
      [] OTHER -> IF comptype = "LT" THEN "RealOGT" ELSE "RealO" \o comptype

\* llvm.rs Generator::compare
Generator_compare(g, comptype, typ) ==
    IF typ.tag \notin Arithmetic \/ Len(g.stack) < 2 THEN GenPanic(g)
    ELSE GenPush(GenPop(g, 2),
                 Value(IF typ.tag \in FloatTypes THEN "FCmp" ELSE "ICmp",
                       Predicate(comptype, typ), GenPopped(g, 2)))

\* llvm.rs Generator::branch
Generator_branch(g, then_label, else_label) ==
    IF g.stack = <<>> \/ {then_label, else_label} \ g.labels # {} THEN GenPanic(g)
    ELSE GenPush(GenPop(g, 1), Value("CondBr", "", GenPopped(g, 1)))

\* llvm.rs Generator::jump
Generator_jump(g, label) ==
    IF label \notin g.labels THEN GenPanic(g) ELSE GenPush(g, Value("Br", "", <<>>))

\* llvm.rs Generator::label
Generator_label(g, label) == IF label \notin g.labels THEN GenPanic(g) ELSE g

\* llvm.rs Generator::ins
Generator_ins(g, i) ==
    CASE i.ins = "Push" -> Generator_push(g, i.s, i.typ)
      [] i.ins = "Load" -> Generator_load(g, i.s, i.typ)
      [] i.ins = "Store" -> Generator_store(g, i.s)
      [] i.ins = "Allocate" -> Generator_allocate(g, i.s, i.typ)
      [] i.ins = "Branch" -> Generator_branch(g, i.l1, i.l2)
      [] i.ins = "Jump" -> Generator_jump(g, i.l1)
      [] i.ins = "Label" -> Generator_label(g, i.l1)
      [] i.ins = "Call" -> Generator_call(g, i.s)
      [] i.ins = "Return" -> Generator_return(g, i.typ)
      [] i.ins = "Negate" -> Generator_negate(g, i.typ, i.wrap)
      [] i.ins = "Add" -> Generator_commutative(g, "Add", i.typ, i.wrap)
      [] i.ins = "Subtract" -> Generator_subtract(g, i.typ, i.wrap)
      [] i.ins = "Multiply" -> Generator_commutative(g, "Mul", i.typ, i.wrap)
      [] i.ins = "IntDivide" -> Generator_int_divide(g, i.typ)
      [] i.ins = "Divide" -> Generator_divide(g, i.typ)
      [] i.ins = "Compare" -> Generator_compare(g, i.s, i.typ)

\* Generator::go, first loop: every procedure is declared with its LLVM types
Generator_declare(g, ps) ==
    IF \E p \in {ps[j] : j \in DOMAIN ps} :
           p.ret_type.tag \notin LLVMTypes
               \/ \E j \in DOMAIN p.arg_types : p.arg_types[j].tag \notin LLVMTypes
    THEN GenPanic(g)
    ELSE [g EXCEPT !.llvm_procs =
             [n \in {ps[j].name : j \in DOMAIN ps} |->
                 Len(ps[SetMax({j \in DOMAIN ps : ps[j].name = n})].arg_types)]]

RECURSIVE Generator_params(_, _, _)
\* Generator::go, second loop: each parameter from the j-th on is pushed and allocated
Generator_params(g, proc, j) ==
    IF j > Len(proc.args) \/ g.ok # "Some" THEN g
    ELSE Generator_params(
             Generator_allocate(GenPush(g, Value("Param", proc.args[j], <<>>)),
                                proc.args[j], proc.arg_types[j]),
             proc, j + 1)

\* Generator::go, second loop: the labels of the body are indexed, then, unless the
\* body is empty, the parameters are allocated in the entry block
Generator_enter(g, proc) ==
    LET indexed == [g EXCEPT !.labels = @ \cup {proc.body[j].l1 :
                                  j \in {k \in DOMAIN proc.body : proc.body[k].ins = "Label"}}]
    IN  IF proc.body = <<>> THEN indexed ELSE Generator_params(indexed, proc, 1)

\* Generator::go has not started
NotStarted == [proc |-> 0, ins |-> 0]

(***************************************************************************)
(* astgen.rs: the parser steps whose result the lowering depends on.       *)
(***************************************************************************)
\* astgen.rs Parser::expr, primary of one token: an identifier not followed by `(`
\* is a VariableRef, whatever its spelling; literals carry their literal-tag type
Parser_primary(tok) ==
    CASE tok.kind = "Ident" -> VariableRef(tok.s, tok.span)
      [] tok.kind = "IntLiteral" -> Literal(IntLiteral, tok.s, tok.span)
      [] tok.kind = "FloatLiteral" -> Literal(FloatLiteral, tok.s, tok.span)
      [] tok.kind = "StrLiteral" -> Literal(StrLiteral, tok.s, tok.span)
Token(kind, s, span) == [kind |-> kind, s |-> s, span |-> span]

\* astgen.rs Parser::while_statement, given the parsed condition and block
Parser_while_statement(condition, body) == WhileStatement(condition, body)

\* astgen.rs Parser::loop_statement, given the parsed block
Parser_loop_statement(body) == WhileStatement(Literal(Bool, "true", NoSpan), body)

\* astgen.rs Parser::if_statement without elif/else: the synthesised else body
NoElse == Block(<<Literal(Undefined, "undefined", NoSpan)>>)

(***************************************************************************)
(* The expression parser: Parser::expr of astgen.rs over a token list,     *)
(* with Parser::next and Parser::peek of parser.rs. `index` is             *)
(* Parser.index, the number of tokens consumed.                            *)
(***************************************************************************)
\* the EOF token that next and peek return past the end, at the place of the last token
EOFToken(toks) == Token("EOF", "", Last(toks).span)

\* parser.rs Parser::peek
Parser_peek(toks, index) == IF index >= Len(toks) THEN EOFToken(toks) ELSE toks[index + 1]

\* parser.rs Parser::next: the index is advanced first, and the token just passed is
\* returned only if the advanced index is still inside the list
Parser_next(toks, index) ==
    IF index + 1 >= Len(toks) THEN EOFToken(toks) ELSE toks[index + 1]

\* astgen.rs prefix_binding_power; 0 stands for the unreachable!() arm
prefix_binding_power(op) ==
    CASE op = "!" -> 8
      [] op \in {"+", "-"} -> 9
      [] OTHER -> 0

\* astgen.rs postfix_binding_power; <<>> stands for None
postfix_binding_power(op) == IF op = "[" THEN <<11>> ELSE <<>>

\* one pair of binding powers for every infix operator
infix_binding_power_flat(op) ==
    IF op \in {">", "<", ">=", "<=", "==", "!=", "+", "-", "*", "/"} THEN <<5, 6>> ELSE <<>>
\* astgen.rs infix_binding_power; <<>> stands for None
infix_binding_power(op) ==
    CASE op \in {">", "<", ">=", "<=", "==", "!="} -> <<3, 4>>
      [] op \in {"+", "-"} -> <<5, 6>>
      [] op \in {"*", "/"} -> <<7, 8>>
      [] OTHER -> <<>>

\* what Parser::expr hands back: Some(node) | None | a panic, the index it stopped at and
\* the entries it logged
Parsed(ok, nd, index, errs) == [ok |-> ok, node |-> nd, index |-> index, errs |-> errs]
NoNode == Literal(Undefined, "", NoSpan)
ParseFailed(ok, i) == Parsed(ok, NoNode, i, <<>>)
NotParsed == ParseFailed("-", 0)

\* the tokens at which the loop of Parser::expr breaks
ExprEnd == {"EOF", "Newline", "RParen", "RBracket", "Comma", "LBrace", "RBrace"}

\* parser.rs Parser::ensure_next(t), then `rest` on the index after the token
ensure_next(toks, index, kind) == Parser_peek(toks, index).kind = kind

RECURSIVE Parser_expr(_, _, _)
RECURSIVE Parser_expr_loop(_, _, _, _)
RECURSIVE Parser_call_args(_, _, _)

\* the `while self.peek().contents != Token::RParen` loop of the Call arm
Parser_call_args(toks, index, args) ==
    IF Parser_peek(toks, index).kind = "RParen" THEN Parsed("Some", args, index, <<>>)
    ELSE Only({IF r.ok # "Some" THEN r
               ELSE IF Parser_peek(toks, r.index).kind # "Comma"
                    THEN Parsed("Some", Append(args, r.node), r.index, <<>>)
               ELSE Parser_call_args(toks, r.index + 1, Append(args, r.node)) :
               r \in {Parser_expr(toks, index, 0)}})

\* the `loop` of Parser::expr
Parser_expr_loop(toks, left, index, min_bp) ==
    LET t == Parser_peek(toks, index)
        op == IF t.kind = "Op" THEN t.s ELSE "["
        post == postfix_binding_power(op)
        inf == infix_binding_power(op)
    IN  IF t.kind \in ExprEnd THEN Parsed("Some", left, index, <<>>)
        ELSE IF t.kind \notin {"Op", "LBracket"} THEN ParseFailed("Panic", index)
        ELSE IF post # <<>> THEN
            IF post[1] < min_bp THEN Parsed("Some", left, index, <<>>)
            ELSE Only({IF r.ok # "Some" THEN r
                       ELSE IF ~ensure_next(toks, r.index, "RBracket")
                            THEN ParseFailed("None", r.index)
                       ELSE Parser_expr_loop(toks, IndexOp(left, r.node), r.index + 1, min_bp) :
                       r \in {Parser_expr(toks, index + 1, 0)}})
        ELSE IF inf # <<>> THEN
            IF inf[1] < min_bp THEN Parsed("Some", left, index, <<>>)
            ELSE Only({IF r.ok # "Some" THEN r
                       ELSE Parser_expr_loop(toks, InfixOp(op, left, r.node), r.index, min_bp) :
                       r \in {Parser_expr(toks, index + 1, inf[2])}})
        ELSE Parsed("Some", left, index, <<>>)

\* astgen.rs Parser::expr(min_bp) entered at `index`
Parser_expr(toks, index, min_bp) ==
    LET tok == Parser_next(toks, index)
        i1 == index + 1
    IN  IF toks = <<>> THEN ParseFailed("Panic", i1)   \* self.tokens.last().unwrap()
        ELSE
        CASE tok.kind = "Ident" /\ Parser_peek(toks, i1).kind = "LParen" ->
               Only({IF a.ok # "Some" THEN a
                     ELSE IF ~ensure_next(toks, a.index, "RParen")
                          THEN ParseFailed("None", a.index)
                     ELSE Parser_expr_loop(toks, CallNode(tok.s, a.node, tok.span),
                                           a.index + 1, min_bp) :
                     a \in {Parser_call_args(toks, i1 + 1, <<>>)}})
          [] tok.kind \in {"Ident", "IntLiteral", "FloatLiteral", "StrLiteral"}
             /\ ~(tok.kind = "Ident" /\ Parser_peek(toks, i1).kind = "LParen") ->
               Parser_expr_loop(toks, Parser_primary(tok), i1, min_bp)
          [] tok.kind = "LParen" ->
               Only({IF r.ok # "Some" THEN r
                     ELSE IF ~ensure_next(toks, r.index, "RParen")
                          THEN ParseFailed("None", r.index)
                     ELSE Parser_expr_loop(toks, r.node, r.index + 1, min_bp) :
                     r \in {Parser_expr(toks, i1, 0)}})
          [] tok.kind = "Op" ->
               IF prefix_binding_power(tok.s) = 0 THEN ParseFailed("Panic", i1)
               ELSE Only({IF r.ok # "Some" THEN r
                          ELSE Parser_expr_loop(toks, PrefixOp(tok.s, r.node, tok.span),
                                                r.index, min_bp) :
                          r \in {Parser_expr(toks, i1, prefix_binding_power(tok.s))}})
          [] tok.kind = "EOF" ->
               Parsed("None", NoNode, i1,
                      <<[typ |-> "SyntaxError",
                         msg |-> "Encountered the end of the file while parsing",
                         arg |-> "", pos |-> tok.span[1], len |-> tok.span[2]]>>)
          [] OTHER -> ParseFailed("Panic", i1)

\* parser.rs Parser::ensure_ident: an identifier is next (and is then passed)
ensure_ident(toks, index) == Parser_peek(toks, index).kind = "Ident"

\* Parser::try_next(t): the token is passed if it is next, and nothing is passed if not
try_next(toks, index, kind) == Parser_peek(toks, index).kind = kind

\* astgen.rs Parser::assign_statement entered at `index`; the index of a None result is
\* where the `?` that failed left the parser
Parser_assign_statement(toks, index) ==
    IF ~ensure_ident(toks, index) THEN ParseFailed("None", index)
    ELSE IF try_next(toks, index + 1, "Equals") THEN
        Only({IF v.ok # "Some" THEN v
              ELSE Parsed("Some", AssignStatement(toks[index + 1].s, v.node), v.index, <<>>) :
              v \in {Parser_expr(toks, index + 2, 0)}})
    ELSE IF ~ensure_next(toks, index + 1, "LBracket") THEN ParseFailed("None", index + 1)
    ELSE Only({IF i.ok # "Some" THEN i
               ELSE IF ~ensure_next(toks, i.index, "RBracket")
                    THEN ParseFailed("None", i.index)
               ELSE IF ~ensure_next(toks, i.index + 1, "Equals")
                    THEN ParseFailed("None", i.index + 1)
               ELSE Only({IF v.ok # "Some" THEN v
                          ELSE Parsed("Some",
                                      IndexedAssignStatement(toks[index + 1].s, i.node,
                                                             v.node),
                                      v.index, <<>>) :
                          v \in {Parser_expr(toks, i.index + 2, 0)}}) :
               i \in {Parser_expr(toks, index + 2, 0)}})

\* the tokens that Parser::statement hands to a statement of their own
StatementKeywords == {"If", "While", "Loop", "Var", "Const", "Proc", "Return", "Use"}

\* astgen.rs Parser::statement, the arm of a line that starts with no keyword:
\* self.assign_statement().or_else(|| self.expr(0))
Parser_statement(toks, index) ==
    Only({IF a.ok # "None" THEN a
          ELSE Only({Parsed(e.ok, e.node, e.index, a.errs \o e.errs) :
                     e \in {Parser_expr(toks, a.index, 0)}}) :
          a \in {Parser_assign_statement(toks, index)}})

(***************************************************************************)
(* The token lists the expression parser is run on.                        *)
(***************************************************************************)
Id(x) == [kind |-> "Ident", s |-> x]
Op(o) == [kind |-> "Op", s |-> o]
Sym(kind) == [kind |-> kind, s |-> ""]

\* lexer.rs: every token carries its position; here the i-th token is at position i
Lexed(seq) == [i \in DOMAIN seq |-> Token(seq[i].kind, seq[i].s, <<i, 1>>)]

Operands == <<"a", "b", "c", "d", "e">>
BinaryOps == {">", "<", ">=", "<=", "==", "!=", "+", "-", "*", "/"}

\* a op1 b op2 c ...
Chain(ops) ==
    [i \in 1..(2 * Len(ops) + 1) |->
        IF i % 2 = 1 THEN Id(Operands[(i + 1) \div 2]) ELSE Op(ops[i \div 2])]
Chains == {Chain(ops) : ops \in UNION {[1..n -> BinaryOps] : n \in 0..(MaxOperands - 1)}}

\* ( a op1 b ) op2 c   and   a op1 ( b op2 c )
ParenLeft(op1, op2) ==
    <<Sym("LParen"), Id("a"), Op(op1), Id("b"), Sym("RParen"), Op(op2), Id("c")>>
ParenRight(op1, op2) ==
    <<Id("a"), Op(op1), Sym("LParen"), Id("b"), Op(op2), Id("c"), Sym("RParen")>>
Parens == UNION {{ParenLeft(op1, op2), ParenRight(op1, op2)} : op1, op2 \in BinaryOps}

\* prefix operators, calls, indexing, literals, and lists the parser gives up on
OtherExprs ==
    {<<Op("-"), Id("a"), Op("*"), Id("b")>>,
     <<Op("!"), Id("a"), Op("=="), Id("b")>>,
     <<Id("a"), Op("-"), Op("-"), Id("b")>>,
     <<Id("g"), Sym("LParen"), Sym("RParen"), Op("+"), Id("a")>>,
     <<Id("g"), Sym("LParen"), Id("a"), Op("+"), Id("b"), Sym("Comma"),
       [kind |-> "IntLiteral", s |-> "1"], Sym("RParen")>>,
     <<Id("g"), Sym("LParen"), Id("a"), Id("b"), Sym("RParen")>>,
     <<Id("a"), Sym("LBracket"), Id("b"), Op("+"), Id("c"), Sym("RBracket"), Op("*"),
       Id("d")>>,
     <<Id("a"), Op("+"), Id("b"), Sym("LBracket"), Id("c"), Sym("RBracket")>>,
     <<Id("a"), Sym("LBracket"), Id("b")>>,
     <<[kind |-> "FloatLiteral", s |-> "1.5"], Op("<"), [kind |-> "StrLiteral", s |-> "s"]>>,
     <<Id("a"), Op("//"), Id("b")>>,
     <<Id("a"), Op("+~"), Id("b")>>,
     <<Sym("LParen"), Id("a"), Op("+"), Id("b")>>,
     <<Op("*"), Id("a")>>,
     <<Id("a"), Sym("Colon")>>,
     <<Id("a"), Op("+")>>,
     <<Sym("Colon")>>,
     <<>>}

\* assignments, indexed assignments and expression statements
Lines ==
    {<<Id("x"), Sym("Equals"), Id("a"), Op("+"), Id("b")>>,
     <<Id("x"), Sym("LBracket"), Id("a"), Sym("RBracket"), Sym("Equals"), Id("b")>>,
     <<Id("x"), Op("+"), [kind |-> "IntLiteral", s |-> "1"]>>,
     <<Id("x"), Op("*"), Id("a")>>,
     <<Id("x")>>,
     <<Id("foo"), Sym("LParen"), [kind |-> "IntLiteral", s |-> "1"], Sym("RParen")>>,
     <<Id("x"), Sym("LBracket"), Id("a"), Sym("RBracket"), Op("+"), Id("b")>>,
     <<[kind |-> "IntLiteral", s |-> "1"], Op("+"), Id("x")>>,
     <<Sym("LParen"), Id("x"), Sym("RParen"), Op("*"), Id("a")>>,
     <<Sym("Return"), Id("x")>>}

\* the tokens after the expression: the end of a statement line in a block
LineEnd == <<Sym("Newline"), Sym("RBrace")>>

\* an expression line of a block, or a source text that ends with the expression
TokenLists ==
    {Lexed(e \o LineEnd) :
        e \in UNION {Chains, Parens, Lines, OtherExprs,
                     {Chain(<<op>>) : op \in InfixOps \ BinaryOps},
                     {Chain(<<"+", op>>) : op \in InfixOps \ BinaryOps}}}
        \cup {Lexed(e) : e \in OtherExprs \cup {Chain(<<"+">>), Chain(<<"+", "*">>)}}

(***************************************************************************)
(* The programs the builder is run on.                                     *)
(***************************************************************************)
IntLit(v) == Parser_primary(Token("IntLiteral", v, <<1, 1>>))
Ref(x) == Parser_primary(Token("Ident", x, <<2, 1>>))

\* the ids the parser's own counter can have given an unannotated `var`
ParserTypeVars == {0, 1}

\* S1: proc main(): i32 { var x = 1 + 2; return x }
ProgS1(p) ==
    <<ProcStatement("main", <<>>, <<>>, I32,
        Block(<<VarStatement("x", TVar(p), InfixOp("+", IntLit("1"), IntLit("2"))),
                ReturnStatement(Ref("x"))>>))>>
\* S2: proc f(a: i32): i32 { if a > 0 { return 1 } else { return 2 } }
ProgS2 ==
    <<ProcStatement("f", <<"a">>, <<I32>>, I32,
        Block(<<IfStatement(InfixOp(">", Ref("a"), IntLit("0")),
                            Block(<<ReturnStatement(IntLit("1"))>>),
                            Block(<<ReturnStatement(IntLit("2"))>>))>>))>>
\* S3: proc f(): i32 { return g(1) }
ProgS3 ==
    <<ProcStatement("f", <<>>, <<>>, I32,
        Block(<<ReturnStatement(CallNode("g", <<IntLit("1")>>, <<3, 1>>))>>))>>
\* S4: proc f(): i64 { return 3 }
ProgS4 ==
    <<ProcStatement("f", <<>>, <<>>, I64, Block(<<ReturnStatement(IntLit("3"))>>))>>
\* S5: proc f(n: i32): i32 { var i = 0; while i < n { i = i + 1 }; return i }
ProgS5(p) ==
    <<ProcStatement("f", <<"n">>, <<I32>>, I32,
        Block(<<VarStatement("i", TVar(p), IntLit("0")),
                Parser_while_statement(
                    InfixOp("<", Ref("i"), Ref("n")),
                    Block(<<AssignStatement("i", InfixOp("+", Ref("i"), IntLit("1")))>>)),
                ReturnStatement(Ref("i"))>>))>>
\* S6: const K: i32 = 42; proc f(): i32 { return K }
ProgS6 ==
    <<ConstStatement("K", I32, IntLit("42")),
      ProcStatement("f", <<>>, <<>>, I32, Block(<<ReturnStatement(Ref("K"))>>))>>
Scenarios ==
    {ProgS1(p) : p \in ParserTypeVars} \cup {ProgS5(p) : p \in ParserTypeVars}
        \cup {ProgS2, ProgS3, ProgS4, ProgS6}

\* proc f(a: i32): i32 { stmts }
ProcF(stmts) == <<ProcStatement("f", <<"a">>, <<I32>>, I32, Block(stmts))>>

\* control flow: return 1 | a = 1 | if a > 0 {..} [else {..}] | while a > 0 {..} | loop {..},
\* nested to depth d in then-branches and loop bodies and to depth 2 in else-branches
Cond == InfixOp(">", Ref("a"), IntLit("0"))
RECURSIVE Stmts(_)
Blocks(d) == {Block(<<s>>) : s \in Stmts(d)}
ElseBlocks(d) == Blocks(IF d > 1 THEN 1 ELSE d) \cup {NoElse}
Stmts(d) ==
    IF d = 0 THEN {ReturnStatement(IntLit("1")), AssignStatement("a", IntLit("1"))}
    ELSE Stmts(0)
         \cup {IfStatement(Cond, t, e) : t \in Blocks(d - 1), e \in ElseBlocks(d - 1)}
         \cup {Parser_while_statement(Cond, t) : t \in Blocks(d - 1)}
         \cup {Parser_loop_statement(t) : t \in Blocks(0)}
\* the sequences of one, of two, and of up to two or three members of S
Seqs1(S) == {<<s>> : s \in S}
Seqs2(S) == {<<s, t>> : s \in S, t \in S}
UpTo2(S) == Seqs1(S) \cup Seqs2(S)
UpTo3(S) == Seqs1(S) \cup Seqs2(S) \cup {<<s, t, u>> : s \in S, t \in S, u \in S}
ControlFlow ==
    {ProcF(ss) : ss \in Seqs1(Stmts(MaxDepth)) \cup Seqs2(Stmts(1) \ Stmts(0))}

\* `while true {..}`, the spelled-out twin of `loop {..}`
WhileTrue(t) == Parser_while_statement(Parser_primary(Token("Ident", "true", <<2, 4>>)), t)
LoopProg(t) == ProcF(<<Parser_loop_statement(t)>>)
WhileTrueProg(t) == ProcF(<<WhileTrue(t)>>)
Loops == UNION {{WhileTrueProg(t), LoopProg(t)} : t \in Blocks(1)}

\* declarations, (re)declarations with a self-referring initialiser, stores and returns:
\* proc f(b: bool): i64 { up to three of them }
TypedStmts ==
    {VarStatement("x", I32, IntLit("1")), VarStatement("x", Bool, Ref("x")),
     VarStatement("x", TVar(0), IntLit("1")), VarStatement("x", TVar(1), Ref("x")),
     AssignStatement("x", IntLit("1")), AssignStatement("x", Ref("b")),
     ReturnStatement(Ref("b")), ReturnStatement(Ref("x"))}
ProcB(stmts) == <<ProcStatement("f", <<"b">>, <<Bool>>, I64, Block(stmts))>>
Typed == {ProcB(ss) : ss \in UpTo3(TypedStmts)}

\* constants: const K: i32 = 42 before or after proc f(a: i32): i32 { one or two statements }
ConstStmts ==
    {ReturnStatement(Ref("K")), ReturnStatement(InfixOp("+", Ref("K"), Ref("a"))),
     VarStatement("K", I32, IntLit("1")), AssignStatement("a", Ref("K")),
     AssignStatement("K", IntLit("1"))}
ConstK == ConstStatement("K", I32, IntLit("42"))
ConstBodies == {ProcF(ss) : ss \in UpTo2(ConstStmts)}
Constants == UNION {{<<ConstK>> \o p, p \o <<ConstK>>} : p \in ConstBodies}

\* the node kinds and operators the builder has no lowering for, calls, and negation
Other ==
    {ProcF(<<ReturnStatement(IndexOp(Ref("a"), IntLit("0")))>>),
     ProcF(<<ReturnStatement(PostfixOp("!", Ref("a")))>>),
     ProcF(<<ReturnStatement(PrefixOp("!", Ref("a"), <<4, 1>>))>>),
     ProcF(<<ReturnStatement(PrefixOp("+", Ref("a"), <<4, 1>>))>>),
     ProcF(<<ReturnStatement(PrefixOp("-", Ref("a"), <<4, 1>>))>>),
     ProcF(<<IndexedAssignStatement("a", IntLit("0"), IntLit("1"))>>),
     ProcF(<<ConstStatement("K", I32, IntLit("1"))>>),
     ProcF(<<ReturnStatement(CallNode("f", <<IntLit("1")>>, <<3, 1>>))>>),
     ProcF(<<ReturnStatement(CallNode("puts", <<>>, <<3, 4>>))>>),
     ProcF(<<ReturnStatement(Ref("y"))>>),
     <<UseStatement("std")>> \o ProcF(<<ReturnStatement(IntLit("1"))>>),
     <<ReturnStatement(IntLit("1"))>>}

\* calls: proc g(x: i64, y: bool): R { return 1 } with its first n parameters, and
\* proc f(a: i32): i32 { return g(1, a) } or { return a + g(1, a) } with the first n
\* arguments, the caller before or after the callee
ProcG(n, ret) ==
    <<ProcStatement("g", SubSeq(<<"x", "y">>, 1, n), SubSeq(<<I64, Bool>>, 1, n), ret,
                    Block(<<ReturnStatement(IntLit("1"))>>))>>
CallG(n) == CallNode("g", SubSeq(<<IntLit("1"), Ref("a")>>, 1, n), <<3, 1>>)
CallerBodies(n) ==
    {<<ReturnStatement(CallG(n))>>, <<ReturnStatement(InfixOp("+", Ref("a"), CallG(n)))>>,
     <<ReturnStatement(InfixOp("+", IntLit("1"), CallG(n)))>>}
CallsOf(n) ==
    UNION {{ProcF(ss) \o ProcG(n, ret), ProcG(n, ret) \o ProcF(ss)} :
           ss \in CallerBodies(n), ret \in {I32, I64}}
\* proc f(a: i32): i32 { return K + g(1) }; proc g(x: i64): i64 { return 1 };
\* const K: i32 = 42
ProgForward ==
    ProcF(<<ReturnStatement(InfixOp("+", Ref("K"), CallG(1)))>>) \o ProcG(1, I64) \o <<ConstK>>
Calls == UNION {CallsOf(n) : n \in 0..2} \cup {ProgForward}

\* no declared return type: proc h(a: i32) with no body, or { one or two statements }
ProcH(stmts) == <<ProcStatement("h", <<"a">>, <<I32>>, Undefined, Block(stmts))>>
Untyped == {ProcH(<<>>)} \cup {ProcH(ss) : ss \in UpTo2(Stmts(1))}

RECURSIVE Nested(_, _)
\* a + (a + (a + ...)) when right, ((a + a) + a) + ... otherwise, with n operators
Nested(n, right) ==
    IF n = 0 THEN Ref("a")
    ELSE IF right THEN InfixOp("+", Ref("a"), Nested(n - 1, right))
    ELSE InfixOp("+", Nested(n - 1, right), Ref("a"))
Nesting ==
    {ProcF(<<ReturnStatement(Nested(n, right))>>) : n \in 1..MaxNesting, right \in BOOLEAN}

\* proc p(b: i32): i32 { var x: i32 = 1; return x } before or after
\* proc f(a: i32): i32 { return n } or { n = 1; return a }, n one of x, b, a
ProcP ==
    <<ProcStatement("p", <<"b">>, <<I32>>, I32,
                    Block(<<VarStatement("x", I32, IntLit("1")), ReturnStatement(Ref("x"))>>))>>
TwoProcs ==
    UNION {{ProcP \o ProcF(ss), ProcF(ss) \o ProcP} :
           ss \in UNION {{<<ReturnStatement(Ref(n))>>,
                          <<AssignStatement(n, IntLit("1")), ReturnStatement(Ref("a"))>>} :
                         n \in {"x", "b", "a"}}}
        \cup {ProcP \o ProcF(<<VarStatement("y", I32, Ref("y")), ReturnStatement(Ref("y"))>>)}

\* constants whose initialiser names a constant: const K = K, const K = K + 1, the pair
\* const K = J and const J = K, and the chain const K = J, const J = 1 that ends, each
\* before proc f(a: i32): i32 { return K }
ConstJ(value) == ConstStatement("J", I32, value)
ConstChains ==
    {<<ConstStatement("K", I32, v)>> \o js \o ProcF(<<ReturnStatement(Ref("K"))>>) :
         v \in {Ref("K"), Ref("J"), InfixOp("+", Ref("K"), IntLit("1"))},
         js \in {<<>>, <<ConstJ(Ref("K"))>>, <<ConstJ(IntLit("1"))>>, <<ConstJ(Ref("J"))>>}}

\* what the generator is handed: proc f(a: T): R { return L op R } on an integer and on a
\* float type with L and R the parameter and a literal in either order, calls of
\* proc g(x: i32, y: i32): i32 { return x } and of proc h(x: i32): i32 { return x }
\* below an addition, a negation, and bodies with declarations, stores, branches and loops
FloatLit(v) == Parser_primary(Token("FloatLiteral", v, <<1, 3>>))
BinaryProc(op, l, r, t, ret) ==
    <<ProcStatement("f", <<"a">>, <<t>>, ret, Block(<<ReturnStatement(InfixOp(op, l, r))>>))>>
Comparisons == {"==", "!=", ">", "<", ">=", "<="}
Binaries ==
    UNION {{BinaryProc(op, Ref("a"), IntLit("1"), I32, IF op \in Comparisons THEN Bool ELSE I32),
            BinaryProc(op, IntLit("1"), Ref("a"), I32, IF op \in Comparisons THEN Bool ELSE I32),
            BinaryProc(op, Ref("a"), FloatLit("1.5"), F64,
                       IF op \in Comparisons THEN Bool ELSE F64),
            BinaryProc(op, FloatLit("1.5"), Ref("a"), F64,
                       IF op \in Comparisons THEN Bool ELSE F64)} : op \in InfixOps}
ProcX(name, n) ==
    <<ProcStatement(name, SubSeq(<<"x", "y">>, 1, n), SubSeq(<<I32, I32>>, 1, n), I32,
                    Block(<<ReturnStatement(Ref("x"))>>))>>
CallsBelowAdd ==
    {ProcX("g", 2) \o ProcF(<<ReturnStatement(InfixOp("+", Ref("a"), CallNode("g", args, <<3, 1>>)))>>) :
         args \in {<<IntLit("2"), Ref("a")>>, <<Ref("a"), IntLit("2")>>}}
        \cup {ProcX("h", 1) \o ProcF(<<ReturnStatement(CallNode("h", <<Ref("a")>>, <<3, 1>>))>>)}
BackendPrograms ==
    UNION {Binaries, CallsBelowAdd,
           {ProcF(<<ReturnStatement(PrefixOp("-", Ref("a"), <<4, 1>>))>>)},
           {ProcF(ss) : ss \in Seqs1(Stmts(1))},
           {ProcF(<<VarStatement("x", I32, IntLit("1")), AssignStatement("x", Ref("a")),
                    ReturnStatement(Ref("x"))>>)}}

Programs ==
    UNION {Scenarios, ControlFlow, Loops, Typed, Constants, Calls, Untyped, Nesting, TwoProcs,
           ConstChains, Other}

(***************************************************************************)
(* The state machine: IRBuilder::new, then go, then analyze.               *)
(***************************************************************************)
\* ir.rs IRBuilder::new, with the error log as the process starts
New == Builder(0, 0, <<>>, <<>>, EmptyMap, <<>>)

Self == Builder(available_type_var, available_label_id, scopes, procs, consts, errors)

Becomes(b) ==
    /\ available_type_var' = b.available_type_var
    /\ available_label_id' = b.available_label_id
    /\ scopes' = b.scopes
    /\ procs' = b.procs
    /\ consts' = b.consts
    /\ errors' = b.errors

Aborts(ok) == ok \in {"Panic", "Overflow"}

Init ==
    /\ ast \in Programs
    /\ available_type_var = New.available_type_var
    /\ available_label_id = New.available_label_id
    /\ scopes = New.scopes
    /\ procs = New.procs
    /\ consts = New.consts
    /\ errors = New.errors
    /\ pc = "new"
    /\ go_result = "-"
    /\ analyze_result = "-"
    /\ tokens = <<>>
    /\ parser_index = 0
    /\ expr_result = NotParsed
    /\ statement_result = NotParsed
    /\ constraint_list = <<>>
    /\ generator = Generator_new
    /\ gen_at = NotStarted

\* build_ir: one call of IRBuilder::go
BuildIR ==
    /\ pc = "new"
    /\ \E r \in {go(ast, Self)} :
           /\ Becomes(r.b)
           /\ go_result' = r.ok
           /\ pc' = IF Aborts(r.ok) THEN "aborted" ELSE "built"
    /\ UNCHANGED <<ast, analyze_result, tokens, parser_index, expr_result,
                   statement_result, constraint_list, generator, gen_at>>

\* analyze: one call of IRBuilder::analyze, whatever go returned
Analyze ==
    /\ pc = "built"
    /\ \E r \in {analyze(Self)} :
           /\ Becomes(r.b)
           /\ analyze_result' = r.ok
           /\ pc' = IF Aborts(r.ok) THEN "aborted" ELSE "analyzed"
    /\ UNCHANGED <<ast, go_result, tokens, parser_index, expr_result, statement_result,
                   constraint_list, generator, gen_at>>

Next == BuildIR \/ Analyze

Spec == Init /\ [][Next]_vars

(***************************************************************************)
(* The expression parser on its own: Parser::new on a token list, then one *)
(* call of Parser::expr(0).                                                *)
(***************************************************************************)
ParserInit ==
    /\ tokens \in TokenLists
    /\ parser_index = 0
    /\ expr_result = NotParsed
    /\ statement_result = NotParsed
    /\ constraint_list = <<>>
    /\ generator = Generator_new
    /\ gen_at = NotStarted
    /\ ast = <<>>
    /\ available_type_var = New.available_type_var
    /\ available_label_id = New.available_label_id
    /\ scopes = New.scopes
    /\ procs = New.procs
    /\ consts = New.consts
    /\ errors = New.errors
    /\ pc = "lexed"
    /\ go_result = "-"
    /\ analyze_result = "-"

ParseExpr ==
    /\ pc = "lexed"
    /\ \E r \in {Parser_expr(tokens, parser_index, 0)} :
           /\ expr_result' = r
           /\ parser_index' = r.index
           /\ errors' = errors \o r.errs
           /\ pc' = IF Aborts(r.ok) THEN "aborted" ELSE "parsed"
    /\ UNCHANGED <<tokens, ast, available_type_var, available_label_id, scopes, procs,
                   consts, go_result, analyze_result, statement_result, constraint_list,
                   generator, gen_at>>

\* one call of Parser::statement on a line that starts with no statement keyword
ParseStatement ==
    /\ pc = "lexed"
    /\ tokens # <<>>
    /\ tokens[1].kind \notin StatementKeywords
    /\ \E r \in {Parser_statement(tokens, parser_index)} :
           /\ statement_result' = r
           /\ parser_index' = r.index
           /\ errors' = errors \o r.errs
    /\ pc' = "statement"
    /\ UNCHANGED <<tokens, ast, available_type_var, available_label_id, scopes, procs,
                   consts, go_result, analyze_result, expr_result, constraint_list,
                   generator, gen_at>>

ParserNext == ParseExpr \/ ParseStatement

SpecParser == ParserInit /\ [][ParserNext]_vars

(***************************************************************************)
(* add_constraint on its own: a Constraints list, empty at first as in     *)
(* gen_constraints, to which pairs of types are added one call at a time.  *)
(***************************************************************************)
\* the types a walk hands to add_constraint: off the type stack, an instruction's typ,
\* a declared type
ConstraintTypes ==
    {TVar(0), TVar(1), IntLiteral, FloatLiteral, StrLiteral, I32, Bool, Unknown, Undefined}

ConstraintInit ==
    /\ constraint_list = <<>>
    /\ generator = Generator_new
    /\ gen_at = NotStarted
    /\ tokens = <<>>
    /\ parser_index = 0
    /\ expr_result = NotParsed
    /\ statement_result = NotParsed
    /\ ast = <<>>
    /\ available_type_var \in {2, 3}
    /\ available_label_id = New.available_label_id
    /\ scopes = New.scopes
    /\ procs = New.procs
    /\ consts = New.consts
    /\ errors = New.errors
    /\ pc = "walking"
    /\ go_result = "Some"
    /\ analyze_result = "-"

AddConstraint ==
    /\ pc = "walking"
    /\ Len(constraint_list) < MaxConstraints
    /\ available_type_var < MaxTypeVar
    /\ \E t1in, t2in \in ConstraintTypes :
           \E r \in {add_constraint(constraint_list, Self, t1in, t2in)} :
               /\ constraint_list' = r.cs
               /\ available_type_var' = r.b.available_type_var
    /\ UNCHANGED <<tokens, parser_index, expr_result, statement_result, ast,
                   available_label_id, scopes, procs, consts, errors, pc, go_result,
                   analyze_result, generator, gen_at>>

SpecConstraint == ConstraintInit /\ [][AddConstraint]_vars

(***************************************************************************)
(* The backend on its own: Generator::new on the procedures that build_ir  *)
(* and analyze returned, then Generator::go, one step at a time: the       *)
(* declarations, the entry of a procedure, one instruction.                *)
(***************************************************************************)
\* build_ir, then analyze when build_ir returned the procedures
Pipeline(program) ==
    Only({IF r.ok # "Some" THEN r ELSE analyze(r.b) : r \in {go(program, New)}})

BackendInit ==
    /\ ast \in BackendPrograms
    /\ \E r \in {Pipeline(ast)} :
           /\ r.ok = "Some"
           /\ available_type_var = r.b.available_type_var
           /\ available_label_id = r.b.available_label_id
           /\ scopes = r.b.scopes
           /\ procs = r.b.procs
           /\ consts = r.b.consts
           /\ errors = r.b.errors
    /\ pc = "generator"
    /\ go_result = "Some"
    /\ analyze_result = "Some"
    /\ tokens = <<>>
    /\ parser_index = 0
    /\ expr_result = NotParsed
    /\ statement_result = NotParsed
    /\ constraint_list = <<>>
    /\ generator = Generator_new
    /\ gen_at = NotStarted

\* the generator moves on to place at, unless it has panicked or run out of procedures
MovesTo(g, at) ==
    /\ generator' = g
    /\ gen_at' = at
    /\ pc' = IF g.ok # "Some" THEN "aborted"
             ELSE IF at.proc > Len(procs) THEN "generated" ELSE "generator"
    /\ UNCHANGED <<ast, available_type_var, available_label_id, scopes, procs, consts,
                   errors, go_result, analyze_result, tokens, parser_index, expr_result,
                   statement_result, constraint_list>>

\* Generator::go, the loop of declarations
Declare ==
    /\ pc = "generator"
    /\ gen_at = NotStarted
    /\ \E g \in {Generator_declare(generator, procs)} : MovesTo(g, [proc |-> 1, ins |-> 0])

\* Generator::go, the head of the loop over the bodies
EnterProc ==
    /\ pc = "generator"
    /\ gen_at.proc \in DOMAIN procs
    /\ gen_at.ins = 0
    /\ \E g \in {Generator_enter(generator, procs[gen_at.proc])} :
           MovesTo(g, IF procs[gen_at.proc].body = <<>>
                      THEN [proc |-> gen_at.proc + 1, ins |-> 0]
                      ELSE [proc |-> gen_at.proc, ins |-> 1])

\* Generator::go, one turn of `for ins in &proc.body`
Ins ==
    /\ pc = "generator"
    /\ gen_at.proc \in DOMAIN procs
    /\ gen_at.ins \in DOMAIN procs[gen_at.proc].body
    /\ \E g \in {Generator_ins(generator, procs[gen_at.proc].body[gen_at.ins])} :
           MovesTo(g, IF gen_at.ins = Len(procs[gen_at.proc].body)
                      THEN [proc |-> gen_at.proc + 1, ins |-> 0]
                      ELSE [proc |-> gen_at.proc, ins |-> gen_at.ins + 1])

BackendNext == Declare \/ EnterProc \/ Ins

SpecBackend == BackendInit /\ [][BackendNext]_vars

(***************************************************************************)
(* Properties.                                                             *)
(***************************************************************************)
HasProc(name) == \E i \in DOMAIN procs : procs[i].name = name
ProcBody(name) == procs[SetMin({i \in DOMAIN procs : procs[i].name = name})].body
Bodies == {procs[i].body : i \in DOMAIN procs}
Analyzed == pc = "analyzed" /\ analyze_result = "Some"

\* C1: for proc main(): i32 { var x = 1 + 2; return x }, after build_ir and analyze the
\* body of main ends with Return, every instruction has typ i32 and no error is logged.
C1_S1EveryInstructionI32 ==
    (pc = "analyzed" /\ \E p \in ParserTypeVars : ast = ProgS1(p)) =>
        /\ analyze_result = "Some"
        /\ HasProc("main")
        /\ ProcBody("main") # <<>>
        /\ IsReturn(Last(ProcBody("main")))
        /\ \A i \in DOMAIN ProcBody("main") : ProcBody("main")[i].typ = I32
        /\ errors = <<>>

\* C2: for proc f(a: i32): i32 { if a > 0 { return 1 } else { return 2 } }, after analyze
\* the Compare(GT) instruction has typ bool and its two operand instructions, the Load of
\* a and the Push of 0, have typ i32.
C2_CompareBoolOperandsI32 ==
    (pc = "analyzed" /\ ast = ProgS2) =>
        /\ analyze_result = "Some"
        /\ HasProc("f")
        /\ LET body == ProcBody("f")
               cmp == {i \in DOMAIN body : body[i].ins = "Compare" /\ body[i].s = "GT"}
           IN  /\ Cardinality(cmp) = 1
               /\ \A i \in cmp :
                    /\ body[i].typ = Bool
                    /\ i > 2
                    /\ body[i - 2].ins = "Load" /\ body[i - 2].s = "a"
                    /\ body[i - 2].typ = I32
                    /\ body[i - 1].ins = "Push" /\ body[i - 1].s = "0"
                    /\ body[i - 1].typ = I32

C2_Witness ==
    /\ Analyzed
    /\ ast = ProgS2
    /\ \E i \in DOMAIN ProcBody("f") : ProcBody("f")[i].ins = "Compare"

\* C3: in every procedure body produced by build_ir, every Jump(id) and every
\* Branch(then, else) has a Label with each id it names in the same body.
LabelsOf(body) == {body[i].l1 : i \in {j \in DOMAIN body : body[j].ins = "Label"}}
C3_JumpTargetsLabelled ==
    \A body \in Bodies :
        \A i \in DOMAIN body :
            /\ body[i].ins = "Jump" => body[i].l1 \in LabelsOf(body)
            /\ body[i].ins = "Branch" =>
                    body[i].l1 \in LabelsOf(body) /\ body[i].l2 \in LabelsOf(body)

\* a body with nested control flow: two branches, a jump, and a branch ending in Return
C3_Witness ==
    /\ pc = "built"
    /\ go_result = "Some"
    /\ \E body \in Bodies :
        /\ Cardinality({i \in DOMAIN body : body[i].ins = "Branch"}) >= 2
        /\ \E i \in DOMAIN body : body[i].ins = "Jump"
        /\ \E i \in DOMAIN body : i < Len(body) /\ IsReturn(body[i]) /\ body[i + 1].ins = "Label"

(***************************************************************************)
(* A program of one procedure: its statements, the builder as go enters    *)
(* the body, and the lowering of a prefix of the statements.               *)
(***************************************************************************)
OneProc ==
    Len(ast) = 1 /\ ast[1].kind = "ProcStatement" /\ ast[1].kids[1].kind = "Block"
Statements == ast[1].kids[1].kids
Entered == enter_proc(ast[1], declare(ast, build_header(New)).b)
Lowered(i) == node_list(SubSeq(Statements, 1, i), Entered, MaxInline)
Built == pc = "built" /\ go_result = "Some"

LabelAt(body, id) == {j \in DOMAIN body : body[j].ins = "Label" /\ body[j].l1 = id}
JumpsTo(body, id) == {j \in DOMAIN body : body[j].ins = "Jump" /\ body[j].l1 = id}
EndsInReturn(ins) == ins # <<>> /\ IsReturn(Last(ins))

\* the lowerings of the condition, the then-branch and the else-branch of the if
\* statement at position i, and the end label allocated for it
IfParts(i) ==
    LET before == Lowered(i - 1)
        c == node(Statements[i].kids[1],
                  next_label_id(next_label_id(next_label_id(before.b))), MaxInline)
        t == node(Statements[i].kids[2], c.b, MaxInline)
        e == node(Statements[i].kids[3], t.b, MaxInline)
    IN  [end_id |-> before.b.available_label_id + 2, then_ins |-> t.ins, else_ins |-> e.ins,
         last |-> Len(Lowered(i).ins)]
BothReturn(parts) == EndsInReturn(parts.then_ins) /\ EndsInReturn(parts.else_ins)

\* C4: an if statement whose then-branch and else-branch both end in Return leaves no
\* Label(end_id) and no Jump(end_id) in the body for the end label allocated for it;
\* when a branch does not end in Return, Label(end_id) is in the body exactly once,
\* closing the statement, after the instructions of the else-branch.
C4_IfEndLabel ==
    (Built /\ OneProc) =>
        \A i \in DOMAIN Statements :
            Statements[i].kind = "IfStatement" =>
                LET body == ProcBody(ast[1].s)
                    parts == IfParts(i)
                    jump == IF EndsInReturn(parts.else_ins) THEN 0 ELSE 1
                    from == parts.last - jump - Len(parts.else_ins)
                IN  IF BothReturn(parts)
                    THEN LabelAt(body, parts.end_id) = {} /\ JumpsTo(body, parts.end_id) = {}
                    ELSE /\ LabelAt(body, parts.end_id) = {parts.last}
                         /\ from >= 1
                         /\ SubSeq(body, from, parts.last - jump - 1) = parts.else_ins

\* a procedure with an if statement whose branches both return and an if statement
\* with a branch that does not
C4_Witness ==
    /\ Built
    /\ OneProc
    /\ \E i \in DOMAIN Statements :
            Statements[i].kind = "IfStatement" /\ BothReturn(IfParts(i))
    /\ \E i \in DOMAIN Statements :
            Statements[i].kind = "IfStatement" /\ ~BothReturn(IfParts(i))

\* C5: after analyze, every Load(v) and Store(v) that follows an Allocate(v) in the body
\* has the typ of the Allocate(v) nearest before it.
C5_LoadStoreCarryAllocateTyp ==
    Analyzed =>
        \A body \in Bodies :
            \A j \in DOMAIN body :
                LET before == {i \in 1..(j - 1) :
                                  body[i].ins = "Allocate" /\ body[i].s = body[j].s}
                IN  (body[j].ins \in {"Load", "Store"} /\ before # {}) =>
                        body[j].typ = body[SetMax(before)].typ

\* C6 as stated: for proc f(): i32 { return g(1) } one NameError naming g is logged, no
\* Call of g is emitted, and analyze returns absent.
C6_AnalyzeAbsent ==
    (pc = "analyzed" /\ ast = ProgS3) =>
        /\ Len(errors) = 1
        /\ errors[1].typ = "NameError" /\ errors[1].arg = "g"
        /\ \A body \in Bodies : \A i \in DOMAIN body : body[i].ins # "Call"
        /\ analyze_result = "None"

\* C6 amended: for proc f(): i32 { return g(1) } build_ir returns absent with exactly one
\* NameError naming g in the log and no Call of g in any body; analyze run on the builder
\* afterwards adds no error and returns present, the procedures having no body.
C6_BuildAbsent ==
    (pc \in {"built", "analyzed"} /\ ast = ProgS3) =>
        /\ go_result = "None"
        /\ Len(errors) = 1
        /\ errors[1].typ = "NameError" /\ errors[1].arg = "g"
        /\ \A body \in Bodies : \A i \in DOMAIN body : body[i].ins # "Call"
        /\ pc = "analyzed" => analyze_result = "Some"

C6_Witness ==
    /\ pc = "analyzed"
    /\ ast = ProgS3
    /\ errors # <<>>

\* C7: neither build_ir nor analyze ends the process: every failure is a log record and
\* an absent result.
C7_NeverAborts == pc # "aborted"

\* label ids renamed to their rank among the label ids of the body, positions dropped
LabelIds(body) ==
    {body[i].l1 : i \in {j \in DOMAIN body : body[j].ins \in {"Label", "Jump", "Branch"}}}
        \cup {body[i].l2 : i \in {j \in DOMAIN body : body[j].ins = "Branch"}}
Rank(ids, id) == Cardinality({x \in ids : x < id})
Renamed(body) ==
    [i \in DOMAIN body |->
        [ins |-> body[i].ins, s |-> body[i].s, wrap |-> body[i].wrap, typ |-> body[i].typ,
         l1 |-> IF body[i].ins \in {"Label", "Jump", "Branch"}
                THEN Rank(LabelIds(body), body[i].l1) ELSE 0,
         l2 |-> IF body[i].ins = "Branch" THEN Rank(LabelIds(body), body[i].l2) ELSE 0]]
BodyOf(b, name) == b.procs[SetMin({i \in DOMAIN b.procs : b.procs[i].name = name})].body

\* C8: for every body B, build_ir succeeds on loop { B } exactly when it succeeds on
\* while true { B }, and then the two instruction sequences are equal up to the label ids.
C8_LoopIsWhileTrue ==
    \A t \in Blocks(1) :
        (pc = "built" /\ ast = LoopProg(t)) =>
            LET w == go(WhileTrueProg(t), New)
            IN  /\ w.ok = go_result
                /\ go_result = "Some" =>
                        Renamed(BodyOf(w.b, "f")) = Renamed(ProcBody("f"))

\* C9: for const K: i32 = 42; proc f(): i32 { return K } the body of f after build_ir
\* and analyze has a Push of "42" with typ i32; and in every body the builder produces,
\* before and after analyze, no Load names a constant.
C9_ConstantInlined ==
    /\ (pc = "analyzed" /\ ast = ProgS6) =>
            /\ analyze_result = "Some"
            /\ HasProc("f")
            /\ \E i \in DOMAIN ProcBody("f") :
                    /\ ProcBody("f")[i].ins = "Push"
                    /\ ProcBody("f")[i].s = "42"
                    /\ ProcBody("f")[i].typ = I32
    /\ \A body \in Bodies :
            \A i \in DOMAIN body : body[i].ins = "Load" => body[i].s \notin DOMAIN consts

\* a procedure lowered with the constant declared, a variable of the constant's name in
\* scope, and the constant's initialiser in the body
C9_Witness ==
    /\ Built
    /\ "K" \in DOMAIN consts
    /\ \E i \in DOMAIN scopes : "K" \in DOMAIN scopes[i]
    /\ \E body \in Bodies : \E i \in DOMAIN body : body[i].ins = "Push" /\ body[i].s = "42"

\* the lowerings of the condition and the body of the while statement at position i,
\* and the first of the three labels allocated for it
WhileParts(i) ==
    LET before == Lowered(i - 1)
        c == node(Statements[i].kids[1],
                  next_label_id(next_label_id(next_label_id(before.b))), MaxInline)
        t == node(Statements[i].kids[2], c.b, MaxInline)
    IN  [cond |-> before.b.available_label_id, first |-> Len(before.ins),
         cond_ins |-> c.ins, body_ins |-> t.ins]

\* C10: a while statement is lowered to Jump(cond), Label(cond), the condition,
\* Branch(body, end), Label(body), the body, Jump(cond) unless the last instruction of the
\* body is Return, Label(end), with cond, body and end three label ids that label nothing
\* else in the procedure.
C10_WhileLowering ==
    (Built /\ OneProc) =>
        \A i \in DOMAIN Statements :
            Statements[i].kind = "WhileStatement" =>
                LET body == ProcBody(ast[1].s)
                    parts == WhileParts(i)
                    span == Statements[i].span
                    cond_label == parts.cond
                    body_label == parts.cond + 1
                    end_label == parts.cond + 2
                    expected ==
                        <<Jump(cond_label, span), Label(cond_label, span)>>
                            \o parts.cond_ins
                            \o <<Branch(body_label, end_label, span), Label(body_label, span)>>
                            \o parts.body_ins
                            \o (IF EndsInReturn(parts.body_ins) THEN <<>>
                                ELSE <<Jump(cond_label, span)>>)
                            \o <<Label(end_label, span)>>
                IN  /\ parts.first + Len(expected) <= Len(body)
                    /\ SubSeq(body, parts.first + 1, parts.first + Len(expected)) = expected
                    /\ Cardinality({cond_label, body_label, end_label}) = 3
                    /\ \A id \in {cond_label, body_label, end_label} :
                            Cardinality(LabelAt(body, id)) = 1

\* a procedure with a while statement whose body ends in Return and one whose body
\* does not
C10_Witness ==
    /\ Built
    /\ OneProc
    /\ \E i \in DOMAIN Statements :
            Statements[i].kind = "WhileStatement" /\ EndsInReturn(WhileParts(i).body_ins)
    /\ \E i \in DOMAIN Statements :
            Statements[i].kind = "WhileStatement" /\ ~EndsInReturn(WhileParts(i).body_ins)

\* C11: after analyze no instruction of any procedure has typ IntLiteral or FloatLiteral
\* (a final pass would have turned them into i64 and f64).
C11_NoLiteralTagAfterAnalyze ==
    Analyzed =>
        \A body \in Bodies : \A i \in DOMAIN body : body[i].typ \notin {IntLiteral, FloatLiteral}

\* every node of the tree under n, n included
RECURSIVE Subnodes(_)
Subnodes(n) == {n} \cup UNION {Subnodes(n.kids[i]) : i \in DOMAIN n.kids}
\* the ids of the Variables the parser attached to unannotated var and const statements
ParserFresh ==
    {n.typ.id : n \in {m \in UNION {Subnodes(ast[i]) : i \in DOMAIN ast} :
                          m.kind \in {"VarStatement", "ConstStatement"} /\ IsVariable(m.typ)}}
\* the ids next_type_var has handed out so far to infix_op, prefix_op and add_constraint
BuilderFresh == 0..(available_type_var - 1)

\* C12: type variable ids are unique within a compilation: no id handed out by the
\* builder's counter (to an infix or prefix instruction, or for an Unknown) is the id of
\* a Variable the parser introduced for an unannotated var or const.
C12_TypeVarsUnique == ParserFresh \cap BuilderFresh = {}

TopLevelErrors ==
    {i \in DOMAIN errors : errors[i].typ = "SyntaxError"
                           /\ errors[i].msg = "is not allowed at the top level of a module"}
TopLevelKinds == {ast[i].kind : i \in DOMAIN ast}

\* C13: once build_ir has run, a module whose top-level nodes are all ProcStatement,
\* ConstStatement or UseStatement has no top-level syntax error logged, and a module with
\* any other top-level node has one logged and build_ir returned absent.
C13_TopLevelAccepted ==
    pc # "new" =>
        IF TopLevelKinds \subseteq {"ProcStatement", "ConstStatement", "UseStatement"}
        THEN TopLevelErrors = {}
        ELSE TopLevelErrors # {} /\ go_result = "None"

\* the top-level positions of the procedures and of the constants of a name
ProcsNamed(name) == {i \in DOMAIN ast : ast[i].kind = "ProcStatement" /\ ast[i].s = name}
ConstsNamed(name) == {i \in DOMAIN ast : ast[i].kind = "ConstStatement" /\ ast[i].s = name}
\* the names the node at top-level position i calls, refers to, and assigns to
CalledIn(i) == {m.s : m \in {x \in Subnodes(ast[i]) : x.kind = "Call"}}
ReferredIn(i) == {m.s : m \in {x \in Subnodes(ast[i]) : x.kind = "VariableRef"}}
AssignedIn(i) == {m.s : m \in {x \in Subnodes(ast[i]) : x.kind = "AssignStatement"}}
\* <<i, j>>: the procedure at i calls the procedure declared, once, later at j
ForwardCalls ==
    {ij \in (DOMAIN ast) \X (DOMAIN ast) :
        /\ ij[1] < ij[2]
        /\ ast[ij[1]].kind = "ProcStatement"
        /\ ast[ij[2]].kind = "ProcStatement"
        /\ ProcsNamed(ast[ij[2]].s) = {ij[2]}
        /\ ast[ij[2]].s \in CalledIn(ij[1])}
\* <<i, j>>: the procedure at i refers to the constant declared later at j
ForwardConsts ==
    {ij \in (DOMAIN ast) \X (DOMAIN ast) :
        /\ ij[1] < ij[2]
        /\ ast[ij[1]].kind = "ProcStatement"
        /\ ast[ij[2]].kind = "ConstStatement"
        /\ ast[ij[2]].s \in ReferredIn(ij[1])}
NameErrors(msg, name) ==
    {e \in DOMAIN errors : errors[e].typ = "NameError" /\ errors[e].msg = msg
                           /\ errors[e].arg = name}

\* C14: a call to a procedure declared later in the source than its caller logs no
\* NameError and, once build_ir has returned the procedures, every Call of it in the
\* caller's body has the callee's declared return type; a reference to a constant
\* declared later logs no NameError and is lowered without a Load of the constant.
C14_ForwardReferences ==
    pc # "new" =>
        /\ \A ij \in ForwardCalls :
              /\ NameErrors("Can't find a procedure named", ast[ij[2]].s) = {}
              /\ Built =>
                    \A k \in DOMAIN ProcBody(ast[ij[1]].s) :
                        LET ins == ProcBody(ast[ij[1]].s)[k]
                        IN  (ins.ins = "Call" /\ ins.s = ast[ij[2]].s) => ins.typ = ast[ij[2]].typ
        /\ \A ij \in ForwardConsts :
              /\ ast[ij[2]].s \in DOMAIN consts
              /\ ast[ij[2]].s \notin AssignedIn(ij[1]) =>
                    NameErrors("Can't find a variable named", ast[ij[2]].s) = {}
              /\ \A body \in Bodies :
                    \A k \in DOMAIN body : body[k].ins = "Load" => body[k].s # ast[ij[2]].s

\* build_ir has lowered a caller whose callee, of another return type, and whose
\* constant are both declared after it: the body holds the Call and the constant's value
C14_Witness ==
    /\ Built
    /\ \E ij \in ForwardCalls :
          /\ ast[ij[2]].typ # ast[ij[1]].typ
          /\ \E k \in DOMAIN ProcBody(ast[ij[1]].s) :
                /\ ProcBody(ast[ij[1]].s)[k].ins = "Call"
                /\ ProcBody(ast[ij[1]].s)[k].s = ast[ij[2]].s
          /\ \E c \in ForwardConsts :
                /\ c[1] = ij[1]
                /\ \E k \in DOMAIN ProcBody(ast[ij[1]].s) :
                      /\ ProcBody(ast[ij[1]].s)[k].ins = "Push"
                      /\ ProcBody(ast[ij[1]].s)[k].s = ast[c[2]].kids[1].s

\* C15: for a procedure with no declared return type, the body build_ir stores is the
\* lowering of its statements followed by Push "undefined" and Return exactly when that
\* lowering is non-empty and does not end in Return, and is the lowering alone otherwise
\* (a body ending in Return, or no body at all).
C15_UndefinedReturnAppended ==
    (Built /\ OneProc /\ ast[1].typ = Undefined) =>
        LET raw == Lowered(Len(Statements)).ins
        IN  ProcBody(ast[1].s) =
                IF raw # <<>> /\ ~IsReturn(Last(raw))
                THEN raw \o <<Push("undefined", Undefined, ast[1].span),
                              Return(Undefined, ast[1].span)>>
                ELSE raw

\* C17: expression parsing follows the binding-power table. For `a op1 b op2 c` over the
\* operators of the table, op2 groups b and c when it binds tighter than op1 (`*` `/`
\* over `+` `-` over the comparisons), and otherwise the parse is (a op1 b) op2 c, so
\* that equal binding powers associate to the left; a parenthesised pair is one operand
\* whatever the operator next to it.
C17_BindingPowers ==
    pc \in {"parsed", "aborted"} =>
        LET V(x, i) == VariableRef(x, <<i, 1>>)
            Level(op) == IF op \in {"*", "/"} THEN 3 ELSE IF op \in {"+", "-"} THEN 2 ELSE 1
        IN  \A op1, op2 \in BinaryOps :
                /\ tokens = Lexed(Chain(<<op1, op2>>) \o LineEnd) =>
                       /\ expr_result.ok = "Some"
                       /\ expr_result.node =
                              IF Level(op2) > Level(op1)
                              THEN InfixOp(op1, V("a", 1), InfixOp(op2, V("b", 3), V("c", 5)))
                              ELSE InfixOp(op2, InfixOp(op1, V("a", 1), V("b", 3)), V("c", 5))
                /\ tokens = Lexed(ParenLeft(op1, op2) \o LineEnd) =>
                       /\ expr_result.ok = "Some"
                       /\ expr_result.node =
                              InfixOp(op2, InfixOp(op1, V("a", 2), V("b", 4)), V("c", 7))
                /\ tokens = Lexed(ParenRight(op1, op2) \o LineEnd) =>
                       /\ expr_result.ok = "Some"
                       /\ expr_result.node =
                              InfixOp(op1, V("a", 1), InfixOp(op2, V("b", 4), V("c", 6)))

\* C17 witness: `a + b * c` has been parsed as a + (b * c)
C17_Witness ==
    /\ pc = "parsed"
    /\ tokens = Lexed(Chain(<<"+", "*">>) \o LineEnd)
    /\ expr_result.node =
           InfixOp("+", VariableRef("a", <<1, 1>>),
                   InfixOp("*", VariableRef("b", <<3, 1>>), VariableRef("c", <<5, 1>>)))

\* the first procedure with instructions (the built-in procedures before it have none,
\* so that their rounds of analyze only push their scopes), the builder as analyze hands
\* it to gen_constraints for that procedure, and the walk of gen_constraints up to, not
\* including, the k-th instruction of its body
ArgScope(proc) ==
    [x \in {proc.args[i] : i \in DOMAIN proc.arg_types} |->
        proc.arg_types[SetMax({i \in DOMAIN proc.arg_types : proc.args[i] = x})]]
HasBody == \E i \in DOMAIN procs : procs[i].body # <<>>
FirstProc == procs[SetMin({i \in DOMAIN procs : procs[i].body # <<>>})]
FirstEntered ==
    [Self EXCEPT !.scopes =
        [i \in 1..SetMin({j \in DOMAIN procs : procs[j].body # <<>>}) |-> ArgScope(procs[i])]]
WalkBefore(k) == gen_loop(FirstProc, 1, k - 1, Walk("Some", <<>>, <<>>, FirstEntered))
Range(seq) == {seq[i] : i \in DOMAIN seq}

\* C18: at a Call of a procedure with N parameters reached with a type stack of depth
\* d >= N, gen_constraints takes exactly the top N entries off, pairs the i-th of them
\* (in source order) with arg_types[i], leaves the d - N entries below as they were and
\* pushes the return type.
C18_CallRemovesTopN ==
    Built /\ HasBody =>
        \A k \in DOMAIN FirstProc.body :
            LET ins == FirstProc.body[k]
                w == WalkBefore(k)
                p == locate_proc(w.b, ins.s)
                N == Len(p.proc.arg_types)
                d == Len(w.stack)
                r == gen_step(FirstProc, ins, w)
                added == Range(SubSeq(r.cs, Len(w.cs) + 1, Len(r.cs)))
                paired == UNION {Range(add_constraint(<<>>, w.b, w.stack[d - N + i],
                                                      p.proc.arg_types[i]).cs) : i \in 1..N}
            IN  ins.ins = "Call" /\ w.ok = "Some" /\ p.ok = "Some" /\ d >= N =>
                    /\ r.ok = "Some"
                    /\ r.stack = Append(SubSeq(w.stack, 1, d - N), p.proc.ret_type)
                    /\ added = paired

\* C19: at a Negate reached with a non-empty type stack, gen_constraints pops one type
\* t, adds the constraint of t with the instruction's type and pushes the instruction's
\* type, so that the depth of the type stack is the same after the Negate as before.
C19_NegateKeepsDepth ==
    Built /\ HasBody =>
        \A k \in DOMAIN FirstProc.body :
            LET ins == FirstProc.body[k]
                w == WalkBefore(k)
                r == gen_step(FirstProc, ins, w)
            IN  ins.ins = "Negate" /\ w.ok = "Some" /\ w.stack # <<>> =>
                    /\ r.ok = "Some"
                    /\ r.cs = add_constraint(w.cs, w.b, Last(w.stack), ins.typ).cs
                    /\ r.stack = Append(Pop(w.stack), ins.typ)
                    /\ Len(r.stack) = Len(w.stack)

\* C20: in the walk of gen_constraints over a body that build_ir has emitted, no
\* instruction finds the type stack empty or shorter than the entries it takes off.
C20_NoStackUnderflow ==
    Built /\ HasBody =>
        \A k \in DOMAIN FirstProc.body :
            WalkBefore(k).ok = "Some" =>
                gen_step(FirstProc, FirstProc.body[k], WalkBefore(k)).ok # "Panic"

\* C21 as stated: every stored constraint has two different sides, neither of them
\* StrLiteral or Undefined, and a Variable on the left whenever one of its sides is a
\* Variable.
C21_VariableOnLeft ==
    \A i \in DOMAIN constraint_list :
        /\ constraint_list[i][1] # constraint_list[i][2]
        /\ constraint_list[i][1] \notin {StrLiteral, Undefined}
        /\ constraint_list[i][2] \notin {StrLiteral, Undefined}
        /\ IsVariable(constraint_list[i][1]) \/ IsVariable(constraint_list[i][2]) =>
               IsVariable(constraint_list[i][1])

\* C21 amended: every stored constraint has two different sides, neither of them
\* StrLiteral or Undefined; a Variable is on the right only of a pair whose left is a
\* Variable or a literal tag (a Variable given first with IntLiteral or FloatLiteral
\* second is stored with the literal tag on the left).
C21_Oriented ==
    \A i \in DOMAIN constraint_list :
        /\ constraint_list[i][1] # constraint_list[i][2]
        /\ constraint_list[i][1] \notin {StrLiteral, Undefined}
        /\ constraint_list[i][2] \notin {StrLiteral, Undefined}
        /\ IsVariable(constraint_list[i][2]) =>
               IsVariable(constraint_list[i][1])
                   \/ constraint_list[i][1] \in {IntLiteral, FloatLiteral}
        /\ constraint_list[i][2] \in {IntLiteral, FloatLiteral} =>
               IsVariable(constraint_list[i][1])
                   \/ constraint_list[i][1] \in {IntLiteral, FloatLiteral}

\* C21 witness: add_constraint has stored a pair with a literal tag before a Variable,
\* and a pair that it swapped to bring the Variable to the left
C21_Witness ==
    /\ pc = "walking"
    /\ constraint_list = <<<<IntLiteral, TVar(0)>>, <<TVar(1), I32>>>>

\* the constraints gen_constraints produces for the first procedure with instructions
FirstConstraints == gen_constraints(FirstProc, FirstEntered)

\* C22: for a constraint list that gen_constraints produces, the instruction types after
\* the three sweeps of solve_constraints are a fixed point: a fourth sweep of the same
\* constraints changes the typ of no instruction.
C22_ThreeSweepsSuffice ==
    Built /\ HasBody /\ FirstConstraints.ok = "Some" =>
        LET solved == solve_constraints(FirstProc, FirstConstraints.cs).body
        IN  \A k \in DOMAIN solved :
                sweep(FirstConstraints.cs, 1, Len(FirstConstraints.cs), solved[k].typ)
                    = solved[k].typ

\* C23: the constraint that a round of a sweep applies to the instruction types is the
\* rewritten one: the pair at its place in the list after every earlier round has
\* replaced its t1 by its t2 in the remaining constraints.
C23_AppliesRewritten ==
    Built /\ HasBody /\ FirstConstraints.ok = "Some" =>
        \A j \in DOMAIN FirstConstraints.cs :
            applied_constraint(FirstConstraints.cs, j)
                = new_constraints(FirstConstraints.cs, j - 1)[j]

\* C24: a line that starts with no statement keyword and holds no `=` is parsed as the
\* expression that starts at its first token: Parser::statement gives what Parser::expr
\* gives from the first token of the line.
C24_ExpressionStatement ==
    pc = "statement" /\ (\A i \in DOMAIN tokens : tokens[i].kind # "Equals") =>
        /\ statement_result.ok = Parser_expr(tokens, 0, 0).ok
        /\ statement_result.ok = "Some" =>
               statement_result.node = Parser_expr(tokens, 0, 0).node

\* C25: the expression parser takes `//`, `+~`, `-~` and `*~` as infix operators: `a op b`
\* is parsed as InfixOp(op, a, b), and in `a + b op c` the `//` and `*~` group b and c as
\* `*` does while `+~` and `-~` associate with `+` to the left.
C25_SurfaceOperators ==
    pc \in {"parsed", "aborted"} =>
        LET V(x, i) == VariableRef(x, <<i, 1>>)
        IN  \A op \in {"//", "+~", "-~", "*~"} :
                /\ tokens = Lexed(Chain(<<op>>) \o LineEnd) =>
                       /\ expr_result.ok = "Some"
                       /\ expr_result.node = InfixOp(op, V("a", 1), V("b", 3))
                /\ tokens = Lexed(Chain(<<"+", op>>) \o LineEnd) =>
                       /\ expr_result.ok = "Some"
                       /\ expr_result.node =
                              IF op \in {"//", "*~"}
                              THEN InfixOp("+", V("a", 1), InfixOp(op, V("b", 3), V("c", 5)))
                              ELSE InfixOp(op, InfixOp("+", V("a", 1), V("b", 3)), V("c", 5))

\* the names declared in the procedure at top-level position i: its parameters and the
\* variables of its var statements
DeclaredIn(i) ==
    {ast[i].args[k] : k \in DOMAIN ast[i].args}
        \cup {m.s : m \in {x \in Subnodes(ast[i]) : x.kind = "VarStatement"}}

\* C26: in a source of two procedures, a name that one of them refers or assigns to and
\* that is declared only in the other (as a parameter or a local variable) is not
\* visible: build_ir logs the name error for it and returns absent.
C26_ScopePerProcedure ==
    pc # "new" /\ Len(ast) = 2 /\ (\A i \in DOMAIN ast : ast[i].kind = "ProcStatement") =>
        \A q \in DOMAIN ast :
            \A n \in (ReferredIn(q) \cup AssignedIn(q)) \ DeclaredIn(q) :
                /\ go_result = "None"
                /\ NameErrors("Can't find a variable named", n) # {}


\* the first statement of the only procedure is `var x = x`, x not a parameter
SelfInitialised ==
    /\ OneProc
    /\ Statements # <<>>
    /\ Statements[1].kind = "VarStatement"
    /\ Statements[1].kids[1].kind = "VariableRef"
    /\ Statements[1].kids[1].s = Statements[1].s
    /\ Statements[1].s \notin Range(ast[1].args)

\* C27: the value of a var statement is lowered before the variable is registered:
\* when the first statement of a procedure is `var x = x` and x is not a parameter,
\* build_ir returns absent and logs "Can't find a variable named x"; and build_ir and
\* analyze agree on the Load placed before the Allocate, so analyze never fails on a
\* body that build_ir returned
C27_InitialiserCannotSeeVariable ==
    SelfInitialised =>
        /\ pc # "new" => go_result = "None"
                         /\ NameErrors("Can't find a variable named", Statements[1].s) # {}
        /\ pc = "analyzed" /\ go_result = "Some" => analyze_result = "Some"


\* C28: build_ir terminates on every program: the inlining of constants never
\* exhausts the stack, whatever the initialisers of the constants refer to
C28_BuildIRTerminates == go_result # "Overflow"


\* two procedures that differ in the typ fields of their instructions at most
SameButTyp(p, q) ==
    /\ p.name = q.name /\ p.args = q.args /\ p.arg_types = q.arg_types
    /\ p.ret_type = q.ret_type
    /\ Len(p.body) = Len(q.body)
    /\ \A i \in DOMAIN p.body : [p.body[i] EXCEPT !.typ = Undefined]
                                    = [q.body[i] EXCEPT !.typ = Undefined]

\* C29: a call of analyze that returns absent leaves procs exactly as it was, and a call
\* that succeeds leaves the same procedures in the same order, each with its name,
\* parameters, parameter types, return type and instructions, the typ fields apart
C29_AllOrNothing ==
    [][pc = "built" =>
           /\ analyze_result' = "None" => procs' = procs
           /\ analyze_result' = "Some" =>
                  /\ Len(procs') = Len(procs)
                  /\ \A i \in DOMAIN procs : SameButTyp(procs[i], procs'[i])]_vars

\* analyze has failed on a procedure that follows one whose types it had solved
C29_Witness ==
    /\ pc = "analyzed" /\ analyze_result = "None"
    /\ HasBody
    /\ FirstConstraints.ok = "Some"
    /\ solve_constraints(FirstProc, FirstConstraints.cs) # FirstProc


\* the expression of `return e`, the only statement of the last procedure of the source
ReturnsOne ==
    /\ Last(ast).kind = "ProcStatement"
    /\ Len(Last(ast).kids[1].kids) = 1
    /\ Last(ast).kids[1].kids[1].kind = "ReturnStatement"
Returned == Last(ast).kids[1].kids[1].kids[1]
IsLeaf(n) == n.kind \in {"VariableRef", "Literal"}
\* the value the backend has for a parameter read or a literal
LeafValue(n) ==
    IF n.kind = "VariableRef" THEN Value("Load", n.s, <<>>)
    ELSE Value(IF n.typ = FloatLiteral THEN "ConstReal" ELSE "ConstInt", n.s, <<>>)
\* the values handed to LLVMBuildRet
RetValues ==
    {generator.built[i].args[1] :
        i \in {j \in DOMAIN generator.built : generator.built[j].op = "Ret"}}
NonCommutative == {"-", "-~", "//", "/"} \cup Comparisons

\* C30: when the generator is through with `return L op R`, op a subtraction, a division
\* or a comparison of a parameter and a literal, the value returned was built with L as
\* its left and R as its right operand; and with `return a + g(..)` the call was built
\* with the arguments in the order of the source
C30_OperandsInSourceOrder ==
    pc \in {"generated", "aborted"} /\ ReturnsOne /\ Returned.kind = "InfixOp" =>
        /\ Returned.s \in NonCommutative /\ IsLeaf(Returned.kids[1])
             /\ IsLeaf(Returned.kids[2]) =>
               \E v \in RetValues :
                   v.args = <<LeafValue(Returned.kids[1]), LeafValue(Returned.kids[2])>>
        /\ Returned.kids[2].kind = "Call" =>
               \E v \in RetValues :
                   \E c \in Range(v.args) :
                       /\ c.op = "Call"
                       /\ c.args = [i \in DOMAIN Returned.kids[2].kids |->
                                       LeafValue(Returned.kids[2].kids[i])]

====
